---- MODULE Spec2Model ----
(***************************************************************************)
(* Model of the texture runtime of the rasterizer cache: the texture       *)
(* recycler, Surface construction and destruction, the scaled and direct   *)
(* upload / download paths and the clear / copy / blit primitives of the   *)
(* Vulkan backend (vk_texture_runtime.cpp), of the OpenGL backend          *)
(* (gl_texture_runtime.cpp) and of the older CachedSurface upload path.    *)
(*                                                                         *)
(* The Vulkan backend records units of work (closures) with the scheduler; *)
(* a unit is modelled as the sequence of commands its closure emits and    *)
(* the command buffer it emits them into.  Finish submits and executes     *)
(* every pending unit.  The OpenGL backends execute their calls at once.   *)
(***************************************************************************)
EXTENDS Integers, Sequences, FiniteSets, TLC

VARIABLES
    backend,           \* "vk", "gl" or "legacy": which runtime is in use
    device,            \* the host device profile (format traits, GLES or not)
    surfaces,          \* slot -> live Surface record, or NoSurface
    texture_recycler,  \* TextureRuntime::texture_recycler, a multimap as a set of entries
    images,            \* every image the driver created, with its per-level layout
    upload_cmdbuf,     \* units recorded into the upload command buffer, not yet executed
    render_cmdbuf,     \* units recorded into the render command buffer, not yet executed
    gpu,               \* what the executed commands found: see GpuStart
    last,              \* what the last operation did (its inputs, results and recorded units)
    pixels,            \* image -> level -> position -> value: the contents of the images
    mapped,            \* StagingData::mapped: the bytes of a staging region
    scheduler,         \* the scheduler: the units it executed and the state around a submission
    process,           \* "running", or "aborted" once a fatal error ended the process
    framebuffer_cache, \* TextureRuntime::framebuffer_cache and the host framebuffers made
    download_buffer,   \* TextureRuntime::download_buffer and the regions handed out of it
    upload_buffer,     \* TextureRuntime::upload_buffer: its regions and who wrote them when
    pool,              \* Common::ObjectPool: its batches and its vacant slots
    threads,           \* the threads that share a ThreadSafeObjectPool: where each one is
    apt,               \* Service::APT::Module: the shared font, its flags and the replies sent
    memory             \* the emulated memory a CachedSurface is flushed to

vars == <<backend, device, surfaces, texture_recycler, images, upload_cmdbuf,
          render_cmdbuf, gpu, last, pixels, mapped, scheduler, process,
          framebuffer_cache, download_buffer, upload_buffer, pool, threads, apt, memory>>

\* The parts of the runtime that have a specification of their own
components == <<framebuffer_cache, download_buffer, upload_buffer, pool, threads, apt, memory>>

\* The state only the detailed specifications further down follow
details == <<pixels, mapped, scheduler, process, components>>

---------------------------------------------------------------------------
(* Bounds of the model *)

MaxSurfaces == 2
MaxImages == 2
MaxPending == 1
MaxTexels == 2      \* texels of a staging region followed byte by byte
MaxRecorded == 3    \* units the scheduler is followed through

Slots == 1..MaxSurfaces

---------------------------------------------------------------------------
(* Pixel formats, surface types, host formats *)

ColorFormats == {"RGBA8", "RGB8"}
DepthFormats == {"D16", "D24S8"}
PixelFormats == ColorFormats \cup DepthFormats

GetFormatType(pixel_format) ==
    CASE pixel_format \in {"RGBA8", "RGB8", "RGB5A1", "RGB565", "RGBA4"} -> "Color"
      [] pixel_format \in {"D16", "D24"} -> "Depth"
      [] pixel_format = "D24S8" -> "DepthStencil"
      [] OTHER -> "Invalid"

\* vk_texture_runtime.cpp MakeAspect: the aspect mask as a set of aspects
MakeAspect(type) ==
    CASE type \in {"Color", "Texture", "Fill"} -> {"Color"}
      [] type = "Depth" -> {"Depth"}
      [] type = "DepthStencil" -> {"Depth", "Stencil"}
      [] OTHER -> {"Color"}

\* A plausible slip: the combined depth-stencil format missing from the switch
MakeFilterNoD24S8(pixel_format) ==
    IF pixel_format \in {"D16", "D24"} THEN "Nearest" ELSE "Linear"

\* vk_texture_runtime.cpp MakeFilter
MakeFilter(pixel_format) ==
    IF pixel_format \in {"D16", "D24", "D24S8"} THEN "Nearest" ELSE "Linear"

\* gl_texture_runtime.cpp MakeBufferMask
MakeBufferMask(type) ==
    CASE type \in {"Color", "Texture", "Fill"} -> {"COLOR_BUFFER_BIT"}
      [] type = "Depth" -> {"DEPTH_BUFFER_BIT"}
      [] type = "DepthStencil" -> {"DEPTH_BUFFER_BIT", "STENCIL_BUFFER_BIT"}
      [] OTHER -> {"COLOR_BUFFER_BIT"}

\* gl_texture_runtime.cpp BlitTextures: the filter of glBlitFramebuffer
GLBlitFilter(type) ==
    IF MakeBufferMask(type) = {"COLOR_BUFFER_BIT"} THEN "Linear" ELSE "Nearest"

\* Aspect of a host format (GetImageAspect)
GetImageAspect(format) ==
    CASE format \in {"D24UnormS8Uint", "D32SfloatS8Uint"} -> {"Depth", "Stencil"}
      [] format \in {"D16Unorm", "D32Sfloat"} -> {"Depth"}
      [] OTHER -> {"Color"}

\* Host device profiles: Instance::GetTraits per pixel format.
\*   "full":    every format is native and blittable
\*   "limited": RGB8 is no attachment format (falls back to RGBA8's host
\*              format) and depth-stencil images cannot be blitted
DeviceProfiles == {"full", "limited"}

GetTraits(dev, pixel_format) ==
    CASE pixel_format = "RGBA8" ->
            [transfer_support |-> TRUE, attachment_support |-> TRUE, blit_support |-> TRUE,
             native |-> "R8G8B8A8Unorm", fallback |-> "R8G8B8A8Unorm"]
      [] pixel_format = "RGB8" ->
            [transfer_support |-> TRUE, attachment_support |-> (dev = "full"),
             blit_support |-> (dev = "full"),
             native |-> "R8G8B8Unorm", fallback |-> "R8G8B8A8Unorm"]
      [] pixel_format = "D16" ->
            [transfer_support |-> TRUE, attachment_support |-> TRUE, blit_support |-> (dev = "full"),
             native |-> "D16Unorm", fallback |-> "D32Sfloat"]
      [] pixel_format = "D24S8" ->
            [transfer_support |-> TRUE, attachment_support |-> TRUE, blit_support |-> (dev = "full"),
             native |-> "D24UnormS8Uint", fallback |-> "D32SfloatS8Uint"]
      [] OTHER ->
            [transfer_support |-> FALSE, attachment_support |-> FALSE, blit_support |-> FALSE,
             native |-> "Undefined", fallback |-> "Undefined"]

\* TextureRuntime::Allocate (4 arguments): the host format chosen for a pixel format
HostFormat(dev, pixel_format) ==
    LET traits == GetTraits(dev, pixel_format)
        aspect == MakeAspect(GetFormatType(pixel_format))
        is_suitable == traits.transfer_support /\ traits.attachment_support /\
                       (traits.blit_support \/ "Depth" \in aspect)
    IN IF is_suitable THEN traits.native ELSE traits.fallback

\* std::bit_width
RECURSIVE BitWidth(_)
BitWidth(n) == IF n = 0 THEN 0 ELSE 1 + BitWidth(n \div 2)

Max(a, b) == IF a >= b THEN a ELSE b

---------------------------------------------------------------------------
(* Rectangles: Common::Rectangle{left, top, right, bottom} *)

Rect(left, top, right, bottom) ==
    [left |-> left, top |-> top, right |-> right, bottom |-> bottom]

GetWidth(r) == IF r.right >= r.left THEN r.right - r.left ELSE r.left - r.right
GetHeight(r) == IF r.top >= r.bottom THEN r.top - r.bottom ELSE r.bottom - r.top

\* Rectangle::operator*: every coordinate times the factor
RectScale(r, s) == Rect(r.left * s, r.top * s, r.right * s, r.bottom * s)

---------------------------------------------------------------------------
(* Surface parameters *)

Params(pixel_format, texture_type, width, height, res_scale, levels) ==
    [pixel_format |-> pixel_format, type |-> GetFormatType(pixel_format),
     texture_type |-> texture_type, width |-> width, height |-> height,
     res_scale |-> res_scale, levels |-> levels]

\* The surfaces the rasterizer cache asks for in this model
ParamSet ==
    { Params("RGBA8", "Texture2D", 2, 2, 1, 1),
      Params("RGBA8", "Texture2D", 2, 2, 2, 1),
      Params("RGB8", "Texture2D", 2, 2, 1, 1),
      Params("D16", "Texture2D", 1, 2, 2, 1),
      Params("D24S8", "Texture2D", 2, 2, 1, 1),
      Params("D24S8", "Texture2D", 1, 1, 2, 1),
      Params("Invalid", "Texture2D", 2, 2, 1, 1) }

GetScaledWidth(p) == p.width * p.res_scale
GetScaledHeight(p) == p.height * p.res_scale
GetScaledRect(p) == Rect(0, GetScaledHeight(p), GetScaledWidth(p), 0)

NoSurface == [pixel_format |-> "None"]
NoAlloc == 0

---------------------------------------------------------------------------
(* The texture recycler *)

\* HostTextureTag.  The Vulkan runtime never sets levels (it keeps its default
\* member initializer); the OpenGL tag holds the pixel format only.
HostTextureTag(format, pixel_format, type, width, height, levels) ==
    [format |-> format, pixel_format |-> pixel_format, type |-> type,
     width |-> width, height |-> height, levels |-> levels]

\* The end iterator of the recycler: the lookup found nothing
NoEntry == [tag |-> HostTextureTag("Undefined", "Invalid", "Texture2D", 0, 0, 0),
            alloc |-> NoAlloc]

\* A plausible slip: the lookup compares the host format and the shape only,
\* not the logical pixel format
FindByHostFormat(recycler, key) ==
    {e \in recycler : /\ e.tag.format = key.format /\ e.tag.type = key.type
                      /\ e.tag.width = key.width /\ e.tag.height = key.height
                      /\ e.tag.levels = key.levels}

\* texture_recycler.find(key): the entries the lookup may return.  Which of
\* several entries with equal keys an unordered_multimap returns is unspecified.
Find(recycler, key) == {e \in recycler : e.tag = key}

\* A plausible slip: the lookup never finds an entry
PicksNothing(recycler, key) == {NoEntry}

\* The outcomes of the lookup: one of the matching entries, or a miss
Picks(recycler, key) == IF Find(recycler, key) = {} THEN {NoEntry} ELSE Find(recycler, key)

\* A plausible slip: the entry is handed out but stays in the recycler
EraseNothing(recycler, entry) == recycler

\* texture_recycler.erase(it)
Erase(recycler, entry) == recycler \ {entry}

\* A plausible slip: a map instead of a multimap, one entry per tag
RecycleUnique(recycler, tag, alloc) ==
    {e \in recycler : e.tag # tag} \cup {[tag |-> tag, alloc |-> alloc]}

\* TextureRuntime::Recycle: texture_recycler.emplace(tag, std::move(alloc))
Recycle(recycler, tag, alloc) == recycler \cup {[tag |-> tag, alloc |-> alloc]}

---------------------------------------------------------------------------
(* Commands and units of work *)

\* VK_REMAINING_MIP_LEVELS (~0U): every level from the base level on.  The
\* largest integer of the model stands for it.
VK_REMAINING_MIP_LEVELS == 2147483647

\* vk::ImageMemoryBarrier over levelCount mip levels from baseMipLevel (level)
ImageBarrierRange(image, aspect, level, levelCount, old, new) ==
    [cmd |-> "pipelineBarrier", image |-> image, aspect |-> aspect, level |-> level,
     levelCount |-> levelCount, oldLayout |-> old, newLayout |-> new]

\* vk::ImageMemoryBarrier of one mip level
ImageBarrier(image, aspect, level, old, new) ==
    ImageBarrierRange(image, aspect, level, 1, old, new)

Unit(kind, cmdbuf, cmds) == [kind |-> kind, cmdbuf |-> cmdbuf, cmds |-> cmds]

\* A plausible slip: the initial transition left out
InitBarrierUnitEmpty(image, aspect) == Unit("Allocate", "upload", <<>>)

\* TextureRuntime::Allocate: the recorded transition of a fresh image, every
\* level and layer, from the undefined to the general layout
InitBarrierUnit(image, aspect) ==
    Unit("Allocate", "upload",
         <<ImageBarrierRange(image, aspect, 0, VK_REMAINING_MIP_LEVELS,
                             "Undefined", "General")>>)

---------------------------------------------------------------------------
(* The runtime state an operation works on; ret is what a bool operation
   returned, FALSE until one has *)

Runtime(recycler, imgs, upload, render) ==
    [recycler |-> recycler, images |-> imgs, upload |-> upload, render |-> render,
     units |-> <<>>, ephem |-> <<>>, commits |-> <<>>,
     alloc |-> NoAlloc, created |-> 0, hit |-> FALSE, ret |-> FALSE,
     driver |-> "VK_SUCCESS", calls |-> 0, logged |-> <<>>, process |-> "running",
     renderpass |-> FALSE, began |-> FALSE, inside |-> <<>>,
     depth |-> 0, nesting |-> <<>>]

\* The depth of nested Upload and Download calls the model follows: a call
\* deeper than this returns at once
MaxNesting == 4

\* Surface::Upload or Surface::Download is entered and takes the path; the
\* call is noted with its depth of nesting
EnterCall(R, op, path) ==
    [R EXCEPT !.depth = @ + 1,
              !.nesting = Append(@, [op |-> op, depth |-> R.depth + 1, path |-> path])]

\* The call returns
LeaveCall(R) == [R EXCEPT !.depth = @ - 1]

\* An operation that stays in the render pass it was called in
KeepRenderpass(R) == R

\* RenderpassCache::ExitRenderpass: the active render pass, if any, is ended
LeaveRenderpass(R) == [R EXCEPT !.renderpass = FALSE]

\* RenderpassCache::EnterRenderpass: a render pass is begun
BeginRenderpass(R) == [R EXCEPT !.renderpass = TRUE]

\* The unit holds a command other than the begin and the end of a render pass
HoldsCommand(unit) ==
    \E i \in DOMAIN unit.cmds : unit.cmds[i].cmd \notin {"beginRenderPass", "endRenderPass"}

\* scheduler.Record of one unit.  The calls of the OpenGL backends are not
\* deferred: they are only noted as done by the operation.  inside keeps the
\* units with commands that were recorded while a render pass was active.
Record(R, unit) ==
    LET R0 == IF R.renderpass /\ HoldsCommand(unit)
              THEN [R EXCEPT !.inside = Append(@, unit)] ELSE R
    IN CASE unit.cmdbuf = "upload" ->
               [R0 EXCEPT !.upload = Append(@, unit), !.units = Append(@, unit)]
         [] unit.cmdbuf = "render" ->
               [R0 EXCEPT !.render = Append(@, unit), !.units = Append(@, unit)]
         [] OTHER -> [R0 EXCEPT !.units = Append(@, unit)]

\* A transfer that leaves its staging region mapped
CommitNothing(R, buffer, size) == R

\* StreamBuffer::Commit / OGLStreamBuffer::Unmap of a staging region
Commit(R, buffer, size) ==
    [R EXCEPT !.commits = Append(@, [buffer |-> buffer, size |-> size])]

NewImage(format, aspect, width, height, levels, layers, layout) ==
    [format |-> format, aspect |-> aspect, width |-> width, height |-> height,
     levels |-> levels, layers |-> layers,
     layout |-> [l \in 0..(levels - 1) |-> layout]]

\* A failure that is logged and goes on
FatalIgnored(R, message) == [R EXCEPT !.logged = Append(@, message)]

\* LOG_CRITICAL followed by UNREACHABLE(): the failure is logged and the
\* process ends
Fatal(R, message) == [R EXCEPT !.logged = Append(@, message), !.process = "aborted"]

\* An Allocate that never looks into the recycler
AllocateVkAlwaysCreates(R, width, height, pixel_format, type, format, pick) ==
    LET levels == BitWidth(Max(width, height))
        layers == IF type = "CubeMap" THEN 6 ELSE 1
    IN Record([R EXCEPT !.images = Append(@, NewImage(format, GetImageAspect(format), width,
                                                      height, levels, layers, "Undefined")),
                        !.alloc = Len(R.images) + 1, !.created = @ + 1, !.hit = FALSE,
                        !.calls = @ + 1],
              InitBarrierUnit(Len(R.images) + 1, GetImageAspect(format)))

\* TextureRuntime::Allocate (Vulkan, host format given).  R.driver is what
\* vmaCreateImage answers if it is called; R.calls counts its calls.
AllocateVk(R, width, height, pixel_format, type, format, pick) ==
    LET key == HostTextureTag(format, pixel_format, type, width, height, 1)
    IN IF pick \in Find(R.recycler, key)
       THEN [R EXCEPT !.recycler = Erase(@, pick), !.alloc = pick.alloc, !.hit = TRUE]
       ELSE IF R.driver # "VK_SUCCESS"
       THEN Fatal([R EXCEPT !.calls = @ + 1, !.alloc = NoAlloc, !.hit = FALSE],
                  "Failed allocating texture with error")
       ELSE LET levels == BitWidth(Max(width, height))
                layers == IF type = "CubeMap" THEN 6 ELSE 1
                aspect == GetImageAspect(format)
                id == Len(R.images) + 1
                R1 == [R EXCEPT !.images = Append(@, NewImage(format, aspect, width, height,
                                                               levels, layers, "Undefined")),
                                !.alloc = id, !.created = @ + 1, !.hit = FALSE,
                                !.calls = @ + 1]
            IN Record(R1, InitBarrierUnit(id, aspect))

\* TextureRuntime::Allocate (OpenGL)
AllocateGL(R, width, height, levels, format, type, pick) ==
    LET key == HostTextureTag(format, format, type, width, height, levels)
    IN IF pick \in Find(R.recycler, key)
       THEN [R EXCEPT !.recycler = Erase(@, pick), !.alloc = pick.alloc, !.hit = TRUE]
       ELSE [R EXCEPT !.images = Append(@, NewImage(format, MakeBufferMask(GetFormatType(format)),
                                                     width, height, levels,
                                                     IF type = "CubeMap" THEN 6 ELSE 1, "None")),
                      !.alloc = Len(R.images) + 1, !.created = @ + 1, !.hit = FALSE]

\* The tag Surface::~Surface recycles a surface under, which is the key its
\* construction looks up
SurfaceTag(be, s) ==
    IF be = "vk"
    THEN HostTextureTag(s.format, s.pixel_format, s.texture_type,
                        GetScaledWidth(s), GetScaledHeight(s), 1)
    ELSE HostTextureTag(s.pixel_format, s.pixel_format, s.texture_type,
                        GetScaledWidth(s), GetScaledHeight(s), s.levels)

\* The key Surface::Surface(params, runtime) looks up
ParamsTag(be, dev, p) ==
    IF be = "vk"
    THEN HostTextureTag(HostFormat(dev, p.pixel_format), p.pixel_format, p.texture_type,
                        GetScaledWidth(p), GetScaledHeight(p), 1)
    ELSE HostTextureTag(p.pixel_format, p.pixel_format, p.texture_type,
                        GetScaledWidth(p), GetScaledHeight(p), p.levels)

MakeSurface(p, alloc, format) ==
    [pixel_format |-> p.pixel_format, type |-> p.type, texture_type |-> p.texture_type,
     width |-> p.width, height |-> p.height, res_scale |-> p.res_scale,
     levels |-> p.levels, alloc |-> alloc, format |-> format,
     aspect |-> GetImageAspect(format)]

\* Surface::Surface(params, runtime): the runtime after the construction; the
\* allocation of the new surface is its alloc field
SurfaceCtor(be, dev, R, p, pick) ==
    IF p.pixel_format = "Invalid" THEN [R EXCEPT !.alloc = NoAlloc, !.hit = FALSE]
    ELSE IF be = "vk"
         THEN AllocateVk(R, GetScaledWidth(p), GetScaledHeight(p), p.pixel_format,
                         p.texture_type, HostFormat(dev, p.pixel_format), pick)
         ELSE AllocateGL(R, GetScaledWidth(p), GetScaledHeight(p), p.levels,
                         p.pixel_format, p.texture_type, pick)

\* Surface::Surface(params, format, usage, runtime) of the Vulkan backend
SurfaceCtorFormat(R, p, format, pick) ==
    IF format = "Undefined" THEN [R EXCEPT !.alloc = NoAlloc, !.hit = FALSE]
    ELSE AllocateVk(R, GetScaledWidth(p), GetScaledHeight(p), p.pixel_format,
                    p.texture_type, format, pick)

\* The Surface object a construction yields
Constructed(R, p) ==
    MakeSurface(p, R.alloc, IF R.alloc = NoAlloc THEN "Undefined" ELSE R.images[R.alloc].format)

\* A destructor that drops the allocation instead of recycling it
SurfaceDtorLeaks(be, R, s) == R

\* Surface::~Surface
SurfaceDtor(be, R, s) ==
    IF s.pixel_format # "Invalid"
    THEN [R EXCEPT !.recycler = Recycle(@, SurfaceTag(be, s), s.alloc)]
    ELSE R


---------------------------------------------------------------------------
(* Vulkan: the recorded units *)

Access(image, level, layout, mode) ==
    [image |-> image, level |-> level, layout |-> layout, mode |-> mode]

\* The stencil plane taken to start a fifth into the region
UnpackDepthStencilOffsetFifth(size) == size \div 5

\* Surface::UnpackDepthStencil: the stencil offset it returns for a staging
\* region of the given size (depth_offset after the loop)
UnpackDepthStencilOffset(size) ==
    LET stencil_offset == (4 * size) \div 5
    IN IF stencil_offset < size THEN 4 * (size - stencil_offset) ELSE 0

\* Surface::GetInternalBytesPerPixel
GetInternalBytesPerPixel(format) ==
    CASE format = "D24UnormS8Uint" -> 5
      [] format \in {"R8G8B8A8Unorm", "R32Uint", "D32Sfloat"} -> 4
      [] format = "D32SfloatS8Uint" -> 5
      [] format = "R8G8B8Unorm" -> 3
      [] format = "D16Unorm" -> 2
      [] OTHER -> 8

BufferTextureCopy(buffer_offset, buffer_size, texture_rect, texture_level) ==
    [buffer_offset |-> buffer_offset, buffer_size |-> buffer_size,
     texture_rect |-> texture_rect, texture_level |-> texture_level]

StagingData(buffer, size, buffer_offset) ==
    [buffer |-> buffer, size |-> size, buffer_offset |-> buffer_offset]

TextureBlit(src_level, dst_level, src_rect, dst_rect) ==
    [src_level |-> src_level, dst_level |-> dst_level, src_layer |-> 0, dst_layer |-> 0,
     src_rect |-> src_rect, dst_rect |-> dst_rect]

BufferImageCopy(offset, rect, aspect, level) ==
    [bufferOffset |-> offset, bufferRowLength |-> GetWidth(rect),
     bufferImageHeight |-> GetHeight(rect), aspectMask |-> aspect, mipLevel |-> level,
     imageOffset |-> <<rect.left, rect.bottom>>,
     imageExtent |-> <<GetWidth(rect), GetHeight(rect)>>]

\* The upload closure writing its commands into the upload command buffer
UploadUnitUploadCmdbuf(s, aspect, upload, staging) ==
    LET rect == upload.texture_rect
        level == upload.texture_level
        offset == staging.buffer_offset + upload.buffer_offset
        copies == IF "Stencil" \in aspect
                  THEN <<BufferImageCopy(offset, rect, {"Depth"}, level),
                         BufferImageCopy(offset + UnpackDepthStencilOffset(staging.size),
                                         rect, {"Stencil"}, level)>>
                  ELSE <<BufferImageCopy(offset, rect, aspect, level)>>
    IN Unit("Upload", "upload",
            <<ImageBarrier(s.alloc, aspect, level, "General", "TransferDstOptimal"),
              [cmd |-> "copyBufferToImage", buffer |-> staging.buffer, image |-> s.alloc,
               copies |-> copies,
               access |-> {Access(s.alloc, level, "TransferDstOptimal", "write")}],
              ImageBarrier(s.alloc, aspect, level, "TransferDstOptimal", "General")>>)

\* The closure Surface::Upload records for a surface at scale 1
UploadUnit(s, aspect, upload, staging) ==
    LET rect == upload.texture_rect
        level == upload.texture_level
        offset == staging.buffer_offset + upload.buffer_offset
        copies == IF "Stencil" \in aspect
                  THEN <<BufferImageCopy(offset, rect, {"Depth"}, level),
                         BufferImageCopy(offset + UnpackDepthStencilOffset(staging.size),
                                         rect, {"Stencil"}, level)>>
                  ELSE <<BufferImageCopy(offset, rect, aspect, level)>>
    IN Unit("Upload", "render",
            <<ImageBarrier(s.alloc, aspect, level, "General", "TransferDstOptimal"),
              [cmd |-> "copyBufferToImage", buffer |-> staging.buffer, image |-> s.alloc,
               copies |-> copies,
               access |-> {Access(s.alloc, level, "TransferDstOptimal", "write")}],
              ImageBarrier(s.alloc, aspect, level, "TransferDstOptimal", "General")>>)

\* The closure Surface::Download records for a surface at scale 1
DownloadUnit(s, aspect, download, staging) ==
    LET rect == download.texture_rect
        level == download.texture_level
    IN Unit("Download", "render",
            <<ImageBarrier(s.alloc, aspect, level, "General", "TransferSrcOptimal"),
              [cmd |-> "copyImageToBuffer", buffer |-> staging.buffer, image |-> s.alloc,
               copies |-> <<BufferImageCopy(staging.buffer_offset + download.buffer_offset,
                                            rect, aspect, level)>>,
               access |-> {Access(s.alloc, level, "TransferSrcOptimal", "read")}],
              ImageBarrier(s.alloc, aspect, level, "TransferSrcOptimal", "General")>>)

\* A plausible slip: the destination is left in the transfer layout
BlitUnitNoRestore(source, dest, blit) ==
    LET aspect == MakeAspect(source.type)
    IN Unit("BlitTextures", "render",
            <<ImageBarrier(source.alloc, aspect, blit.src_level, "General", "TransferSrcOptimal"),
              ImageBarrier(dest.alloc, aspect, blit.dst_level, "General", "TransferDstOptimal"),
              [cmd |-> "blitImage", src |-> source.alloc, dst |-> dest.alloc, blit |-> blit,
               aspect |-> aspect, filter |-> MakeFilter(source.pixel_format),
               access |-> {Access(source.alloc, blit.src_level, "TransferSrcOptimal", "read"),
                           Access(dest.alloc, blit.dst_level, "TransferDstOptimal", "write")}],
              ImageBarrier(source.alloc, aspect, blit.src_level, "TransferSrcOptimal", "General")>>)

\* The closure TextureRuntime::BlitTextures records
BlitUnit(source, dest, blit) ==
    LET aspect == MakeAspect(source.type)
    IN Unit("BlitTextures", "render",
            <<ImageBarrier(source.alloc, aspect, blit.src_level, "General", "TransferSrcOptimal"),
              ImageBarrier(dest.alloc, aspect, blit.dst_level, "General", "TransferDstOptimal"),
              [cmd |-> "blitImage", src |-> source.alloc, dst |-> dest.alloc, blit |-> blit,
               aspect |-> aspect, filter |-> MakeFilter(source.pixel_format),
               access |-> {Access(source.alloc, blit.src_level, "TransferSrcOptimal", "read"),
                           Access(dest.alloc, blit.dst_level, "TransferDstOptimal", "write")}],
              ImageBarrier(source.alloc, aspect, blit.src_level, "TransferSrcOptimal", "General"),
              ImageBarrier(dest.alloc, aspect, blit.dst_level, "TransferDstOptimal", "General")>>)

TextureCopy(src_level, dst_level, src_offset, dst_offset, extent) ==
    [src_level |-> src_level, dst_level |-> dst_level, src_offset |-> src_offset,
     dst_offset |-> dst_offset, extent |-> extent]

\* The closure TextureRuntime::CopyTextures records
CopyUnit(source, dest, copy) ==
    LET aspect == MakeAspect(source.type)
    IN Unit("CopyTextures", "render",
            <<ImageBarrier(source.alloc, aspect, copy.src_level, "General", "TransferSrcOptimal"),
              ImageBarrier(dest.alloc, aspect, copy.dst_level, "General", "TransferDstOptimal"),
              [cmd |-> "copyImage", src |-> source.alloc, dst |-> dest.alloc, copy |-> copy,
               aspect |-> aspect,
               access |-> {Access(source.alloc, copy.src_level, "TransferSrcOptimal", "read"),
                           Access(dest.alloc, copy.dst_level, "TransferDstOptimal", "write")}],
              ImageBarrier(source.alloc, aspect, copy.src_level, "TransferSrcOptimal", "General"),
              ImageBarrier(dest.alloc, aspect, copy.dst_level, "TransferDstOptimal", "General")>>)

TextureClear(texture_level, texture_rect) ==
    [texture_level |-> texture_level, texture_rect |-> texture_rect]

\* VideoCore::TextureClear of the OpenGL runtime, which holds the clear value
TextureClearValue(texture_level, texture_rect, value) ==
    [texture_level |-> texture_level, texture_rect |-> texture_rect, value |-> value]

\* The closure TextureRuntime::ClearTexture records when the whole surface is cleared
ClearUnit(s, clear, value) ==
    LET aspect == MakeAspect(s.type)
        is_color == s.type # "Depth" /\ s.type # "DepthStencil"
        level == clear.texture_level
    IN Unit("ClearTexture", "render",
            <<ImageBarrier(s.alloc, aspect, level, "General", "TransferDstOptimal"),
              [cmd |-> IF is_color THEN "clearColorImage" ELSE "clearDepthStencilImage",
               image |-> s.alloc, aspect |-> aspect, level |-> level, value |-> value,
               access |-> {Access(s.alloc, level, "TransferDstOptimal", "write")}],
              ImageBarrier(s.alloc, aspect, level, "TransferDstOptimal", "General")>>)

\* TextureRuntime::ClearTextureWithRenderpass: the clearing render pass entered
\* and left with the clear rectangle as its render area.  Its framebuffer is
\* the framebuffer view of the surface, the view of the base mip level, at
\* the scaled size of the surface; attachments stay in the general layout.
ClearRenderpassUnit(s, clear, value) ==
    Unit("ClearTextureWithRenderpass", "render",
         <<[cmd |-> "beginRenderPass", image |-> s.alloc, level |-> 0, value |-> value,
            render_area |-> [offset |-> <<clear.texture_rect.left, clear.texture_rect.bottom>>,
                             extent |-> <<GetWidth(clear.texture_rect),
                                          GetHeight(clear.texture_rect)>>],
            access |-> {Access(s.alloc, 0, "General", "write")}],
           [cmd |-> "endRenderPass", access |-> {}]>>)

\* BlitHelper::BlitD24S8ToR32: the compute pass that converts the depth-stencil
\* image into the R32 image; both images stay in the general layout
D24S8ToR32Unit(source, dest, blit) ==
    Unit("BlitD24S8ToR32", "render",
         <<[cmd |-> "dispatch", src |-> source.alloc, dst |-> dest.alloc, blit |-> blit,
            access |-> {Access(source.alloc, blit.src_level, "General", "read"),
                        Access(dest.alloc, blit.dst_level, "General", "write")}]>>)


---------------------------------------------------------------------------
(* Vulkan: the operations of TextureRuntime and Surface *)

\* An ephemeral Surface an operation constructed, as it was while it lived
Ephemeral(R, surface) ==
    [surface |-> surface, hit |-> R.hit,
     pooled |-> {e.alloc : e \in R.recycler}]

NoteEphemeral(R, surface) == [R EXCEPT !.ephem = Append(@, Ephemeral(R, surface))]

\* SurfaceParams of the unscaled surface of a scaled upload or download
UnscaledParams(s, rect) ==
    [pixel_format |-> s.pixel_format, type |-> s.type, texture_type |-> s.texture_type,
     width |-> GetWidth(rect), height |-> GetHeight(rect), res_scale |-> 1,
     levels |-> s.levels]

\* The R32 surface keeping the type of the depth-stencil surface
R32ParamsKeepType(s, rect) ==
    LET scaled_rect == RectScale(rect, s.res_scale)
    IN [pixel_format |-> s.pixel_format, type |-> s.type, texture_type |-> s.texture_type,
        width |-> GetWidth(scaled_rect), height |-> GetHeight(scaled_rect), res_scale |-> 1,
        levels |-> s.levels]

\* SurfaceParams of the R32 surface of a depth-stencil download
R32Params(s, rect) ==
    LET scaled_rect == RectScale(rect, s.res_scale)
    IN [pixel_format |-> s.pixel_format, type |-> "Color", texture_type |-> s.texture_type,
        width |-> GetWidth(scaled_rect), height |-> GetHeight(scaled_rect), res_scale |-> 1,
        levels |-> s.levels]

\* BlitTextures with the two surfaces taken in the wrong order
BlitTexturesVkSwapped(R, source, dest, blit) == Record(R, BlitUnit(dest, source, blit))

\* TextureRuntime::BlitTextures
BlitTexturesVk(R, source, dest, blit) ==
    Record(LeaveRenderpass(R), BlitUnit(source, dest, blit))

\* TextureRuntime::CopyTextures
CopyTexturesVk(R, source, dest, copy) ==
    Record(LeaveRenderpass(R), CopyUnit(source, dest, copy))

\* The value a bool operation returns
Return(R, value) == [R EXCEPT !.ret = value]

\* ClearTexture that never takes the render pass
ClearTextureVkImageOnly(R, s, clear, value) ==
    Return(Record(R, ClearUnit(s, clear, value)), TRUE)

\* TextureRuntime::ClearTexture
ClearTextureVk(R, s, clear, value) ==
    IF clear.texture_rect = GetScaledRect(s)
    THEN Return(Record(LeaveRenderpass(R), ClearUnit(s, clear, value)), TRUE)
    ELSE Return(LeaveRenderpass(Record(BeginRenderpass(LeaveRenderpass(R)),
                                       ClearRenderpassUnit(s, clear, value))), TRUE)

\* A downscale inside one mip level of the R32 image
R32BlitInPlace(r32_scaled_rect, unscaled_rect) ==
    TextureBlit(0, 0, r32_scaled_rect, unscaled_rect)

\* The downscale of Surface::DepthStencilDownload: from mip level 0 of the R32
\* image to its mip level 1
R32Blit(r32_scaled_rect, unscaled_rect) ==
    TextureBlit(0, 1, r32_scaled_rect, unscaled_rect)

\* Surface::Upload with Surface::ScaledUpload
RECURSIVE UploadVk(_, _, _, _, _, _)
UploadVk(dev, R, s, upload, staging, pick) ==
    IF R.depth >= MaxNesting THEN R
    ELSE IF s.type = "DepthStencil" /\ ~GetTraits(dev, s.pixel_format).blit_support
    THEN LeaveCall(EnterCall(R, "Upload", "ignored"))
         \* "Depth blit unsupported by hardware, ignoring"
    ELSE IF s.res_scale # 1
    THEN LET rect == upload.texture_rect
             scaled_rect == RectScale(rect, s.res_scale)
             unscaled_rect == Rect(0, GetHeight(rect), GetWidth(rect), 0)
             unscaled_params == UnscaledParams(s, rect)
             R1 == SurfaceCtor("vk", dev, LeaveRenderpass(EnterCall(R, "Upload", "scaled")),
                               unscaled_params, pick)
             unscaled_surface == Constructed(R1, unscaled_params)
             R2 == NoteEphemeral(R1, unscaled_surface)
             unscaled_upload == BufferTextureCopy(upload.buffer_offset, upload.buffer_size,
                                                  unscaled_rect, 0)
             R3 == UploadVk(dev, R2, unscaled_surface, unscaled_upload, staging, NoEntry)
             blit == TextureBlit(0, upload.texture_level, unscaled_rect, scaled_rect)
             R4 == BlitTexturesVk(R3, unscaled_surface, s, blit)
         IN LeaveCall(SurfaceDtor("vk", R4, unscaled_surface))
    ELSE LeaveCall(Commit(Record(LeaveRenderpass(EnterCall(R, "Upload", "direct")),
                                 UploadUnit(s, s.aspect, upload, staging)),
                          "upload", staging.size))

\* Surface::Download with Surface::ScaledDownload and Surface::DepthStencilDownload
RECURSIVE DownloadVk(_, _, _, _, _, _)
DownloadVk(dev, called, s, download, staging, pick) ==
    LET path == IF s.type = "DepthStencil" THEN "depth-stencil"
                ELSE IF s.res_scale # 1 THEN "scaled" ELSE "direct"
        R == LeaveRenderpass(EnterCall(called, "Download", path))
        rect == download.texture_rect
        scaled_rect == RectScale(rect, s.res_scale)
        unscaled_rect == Rect(0, GetHeight(rect), GetWidth(rect), 0)
    IN IF called.depth >= MaxNesting THEN called
       ELSE IF s.type = "DepthStencil"
       THEN LET r32_params == R32Params(s, rect)
                R1 == SurfaceCtorFormat(R, r32_params, "R32Uint", pick)
                r32_surface == Constructed(R1, r32_params)
                R2 == NoteEphemeral(R1, r32_surface)
                r32_scaled_rect == Rect(0, GetHeight(scaled_rect), GetWidth(scaled_rect), 0)
                blit == TextureBlit(download.texture_level, 0, scaled_rect, r32_scaled_rect)
                R3 == Record(R2, D24S8ToR32Unit(s, r32_surface, blit))
                is_scaled == s.res_scale # 1
                r32_blit == R32Blit(r32_scaled_rect, unscaled_rect)
                R4 == IF is_scaled THEN BlitTexturesVk(R3, r32_surface, r32_surface, r32_blit)
                      ELSE R3
                r32_download == BufferTextureCopy(download.buffer_offset, download.buffer_size,
                                                  unscaled_rect, IF is_scaled THEN 1 ELSE 0)
                R5 == DownloadVk(dev, R4, r32_surface, r32_download, staging, NoEntry)
            IN LeaveCall(SurfaceDtor("vk", R5, r32_surface))
       ELSE IF s.res_scale # 1
       THEN LET unscaled_params == UnscaledParams(s, rect)
                R1 == SurfaceCtor("vk", dev, R, unscaled_params, pick)
                unscaled_surface == Constructed(R1, unscaled_params)
                R2 == NoteEphemeral(R1, unscaled_surface)
                blit == TextureBlit(download.texture_level, 0, scaled_rect, unscaled_rect)
                R3 == BlitTexturesVk(R2, s, unscaled_surface, blit)
                unscaled_download == BufferTextureCopy(download.buffer_offset,
                                                       download.buffer_size, unscaled_rect, 0)
                R4 == DownloadVk(dev, R3, unscaled_surface, unscaled_download, staging, NoEntry)
            IN LeaveCall(SurfaceDtor("vk", R4, unscaled_surface))
       ELSE LeaveCall(Commit(Record(R, DownloadUnit(s, s.aspect, download, staging)),
                             "download", staging.size))


---------------------------------------------------------------------------
(* OpenGL: the operations of TextureRuntime and Surface (executed at once) *)

\* TextureRuntime::BlitTextures
BlitTexturesGL(R, source, dest, blit) ==
    Record(R, Unit("BlitTextures", "gl",
                   <<[cmd |-> "glBlitFramebuffer", src |-> source.alloc, dst |-> dest.alloc,
                      blit |-> blit, mask |-> MakeBufferMask(source.type),
                      filter |-> GLBlitFilter(source.type)]>>))

\* TextureRuntime::ClearTexture: a scissored clear of the bound level
ClearTextureGL(R, s, clear) ==
    Return(Record(R, Unit("ClearTexture", "gl",
                   <<[cmd |-> "glClearBuffer", image |-> s.alloc, level |-> clear.texture_level,
                      value |-> clear.value,
                      scissor |-> [x |-> clear.texture_rect.left, y |-> clear.texture_rect.bottom,
                                   width |-> GetWidth(clear.texture_rect),
                                   height |-> GetHeight(clear.texture_rect)],
                      mask |-> MakeBufferMask(s.type)]>>)), TRUE)

\* TextureRuntime::CopyTextures
CopyTexturesGL(R, source, dest, copy) ==
    Record(R, Unit("CopyTextures", "gl",
                   <<[cmd |-> "glCopyImageSubData", src |-> source.alloc, dst |-> dest.alloc,
                      copy |-> copy]>>))

\* Surface::Upload with Surface::ScaledUpload.  filtered: the texture filterer
\* took the upscale (TextureFilterer::Filter returned true).
RECURSIVE UploadGL(_, _, _, _, _, _, _)
UploadGL(dev, called, s, upload, staging, pick, filtered) ==
    LET R == EnterCall(called, "Upload", IF s.res_scale # 1 THEN "scaled" ELSE "direct")
        rect == upload.texture_rect
    IN IF called.depth >= MaxNesting THEN called
       ELSE IF s.res_scale # 1
       THEN LET scaled_rect == RectScale(rect, s.res_scale)
                unscaled_rect == Rect(0, GetHeight(rect), GetWidth(rect), 0)
                unscaled_params == UnscaledParams(s, rect)
                R1 == SurfaceCtor("gl", dev, R, unscaled_params, pick)
                unscaled_surface == Constructed(R1, unscaled_params)
                R2 == NoteEphemeral(R1, unscaled_surface)
                unscaled_upload == BufferTextureCopy(upload.buffer_offset, upload.buffer_size,
                                                     unscaled_rect, 0)
                R3 == UploadGL(dev, R2, unscaled_surface, unscaled_upload, staging,
                               NoEntry, filtered)
                blit == TextureBlit(0, upload.texture_level, unscaled_rect, scaled_rect)
                R4 == IF filtered
                      THEN Record(R3, Unit("Filter", "gl",
                                           <<[cmd |-> "filter", src |-> unscaled_surface.alloc,
                                              dst |-> s.alloc, src_rect |-> unscaled_rect,
                                              dst_rect |-> scaled_rect]>>))
                      ELSE BlitTexturesGL(R3, unscaled_surface, s, blit)
            IN LeaveCall(SurfaceDtor("gl", R4, unscaled_surface))
       ELSE LeaveCall(Record(Commit(R, "upload", staging.size),
                   Unit("Upload", "gl",
                        <<[cmd |-> "glTexSubImage2D", image |-> s.alloc,
                           level |-> upload.texture_level,
                           x |-> rect.left, y |-> rect.bottom,
                           width |-> GetWidth(rect), height |-> GetHeight(rect),
                           row_length |-> GetWidth(rect),
                           offset |-> staging.buffer_offset]>>)))

\* Surface::Download with Surface::ScaledDownload
DownloadGL(dev, called, s, download, staging, pick) ==
    LET R == EnterCall(called, "Download", IF s.res_scale # 1 THEN "scaled" ELSE "direct")
        rect == download.texture_rect
        level == download.texture_level
    IN IF s.res_scale # 1
       THEN LET scaled_rect == RectScale(rect, s.res_scale)
                unscaled_rect == Rect(0, GetHeight(rect), GetWidth(rect), 0)
                unscaled_params == UnscaledParams(s, rect)
                R1 == SurfaceCtor("gl", dev, R, unscaled_params, pick)
                unscaled_surface == Constructed(R1, unscaled_params)
                R2 == NoteEphemeral(R1, unscaled_surface)
                blit == TextureBlit(level, level, scaled_rect, unscaled_rect)
                R3 == BlitTexturesGL(R2, s, unscaled_surface, blit)
                R4 == IF dev = "gles"
                      THEN Record(R3, Unit("Download", "gl",
                                  <<[cmd |-> "glReadPixels", image |-> unscaled_surface.alloc,
                                     type |-> s.type, level |-> level, x |-> 0, y |-> 0,
                                     width |-> GetWidth(rect), height |-> GetHeight(rect)]>>))
                      ELSE Record(R3, Unit("Download", "gl",
                                  <<[cmd |-> "glGetTexImage", image |-> unscaled_surface.alloc,
                                     type |-> s.type, level |-> level]>>))
            IN LeaveCall(SurfaceDtor("gl", R4, unscaled_surface))
       ELSE LeaveCall(Record(R, Unit("Download", "gl",
                           <<[cmd |-> "glReadPixels", image |-> s.alloc, type |-> s.type,
                              level |-> level, x |-> rect.left, y |-> rect.bottom,
                              width |-> GetWidth(rect), height |-> GetHeight(rect),
                              row_length |-> GetWidth(rect)]>>)))

---------------------------------------------------------------------------
(* The older CachedSurface upload path (rasterizer cache before the runtime) *)

\* RasterizerCache::AllocateSurfaceTexture: a texture of the format and size,
\* from the host texture recycler when it holds one
AllocateSurfaceTexture(R, pixel_format, width, height, pick) ==
    AllocateGL(R, width, height, 1, pixel_format, "Texture2D", pick)

\* TextureRuntime::BlitTextures of texture_runtime.cpp
BlitTexturesLegacy(R, src, dst, surface_type, src_region, dst_region) ==
    Record(R, Unit("BlitTextures", "gl",
                   <<[cmd |-> "glBlitFramebuffer", src |-> src, dst |-> dst,
                      blit |-> [src_level |-> 0, dst_level |-> 0, src_layer |-> 0,
                                dst_layer |-> 0,
                                src_rect |-> Rect(src_region.start[1], src_region.end[2],
                                                  src_region.end[1], src_region.start[2]),
                                dst_rect |-> Rect(dst_region.start[1], dst_region.end[2],
                                                  dst_region.end[1], dst_region.start[2])],
                      mask |-> MakeBufferMask(surface_type),
                      filter |-> GLBlitFilter(surface_type)]>>))

\* CachedSurface::UploadGLTexture, custom textures off
UploadGLTexture(R, s, rect, pick, filtered) ==
    IF s.type = "Fill" THEN R
    ELSE IF s.res_scale # 1
    THEN LET R1 == AllocateSurfaceTexture(R, s.pixel_format, GetWidth(rect), GetHeight(rect), pick)
             unscaled_tex == R1.alloc
             R2 == NoteEphemeral(R1, Constructed(R1, UnscaledParams(s, rect)))
             R3 == Record(R2, Unit("Upload", "gl",
                                   <<[cmd |-> "glTexSubImage2D", image |-> unscaled_tex,
                                      level |-> 0, x |-> 0, y |-> 0,
                                      width |-> GetWidth(rect), height |-> GetHeight(rect),
                                      row_length |-> s.width, offset |-> 0]>>))
             scaled_rect == RectScale(rect, s.res_scale)
             width == GetWidth(rect)
             height == GetHeight(rect)
         IN IF filtered
            THEN Record(R3, Unit("Filter", "gl",
                                 <<[cmd |-> "filter", src |-> unscaled_tex, dst |-> s.alloc,
                                    src_rect |-> Rect(0, height, width, 0),
                                    dst_rect |-> scaled_rect]>>))
            ELSE BlitTexturesLegacy(R3, unscaled_tex, s.alloc, s.type,
                                    [start |-> <<0, 0>>, end |-> <<width, height>>],
                                    [start |-> <<rect.left, rect.bottom>>,
                                     end |-> <<rect.right, rect.top>>])
    ELSE Record(R, Unit("Upload", "gl",
                        <<[cmd |-> "glTexSubImage2D", image |-> s.alloc, level |-> 0,
                           x |-> rect.left, y |-> rect.bottom,
                           width |-> GetWidth(rect), height |-> GetHeight(rect),
                           row_length |-> s.width, offset |-> 0]>>))

---------------------------------------------------------------------------
(* Execution of the recorded commands *)

\* The mip levels of its image a barrier covers
LevelsOf(imgs, c) ==
    {l \in DOMAIN imgs[c.image].layout :
        l >= c.level /\ (c.levelCount = VK_REMAINING_MIP_LEVELS \/ l < c.level + c.levelCount)}

\* A barrier finds the layout it names as the old one (the undefined layout
\* may always be named: the contents are discarded)
BarrierOk(imgs, c) ==
    /\ c.levelCount # VK_REMAINING_MIP_LEVELS =>
           \A l \in c.level..(c.level + c.levelCount - 1) : l \in DOMAIN imgs[c.image].layout
    /\ \A l \in LevelsOf(imgs, c) :
           c.oldLayout = "Undefined" \/ imgs[c.image].layout[l] = c.oldLayout

ApplyBarrier(imgs, c) ==
    [imgs EXCEPT ![c.image].layout =
        [l \in DOMAIN @ |-> IF l \in LevelsOf(imgs, c) THEN c.newLayout ELSE @[l]]]

\* A transfer, clear or dispatch finds each subresource in the layout it was recorded with
AccessOk(imgs, c) ==
    \A a \in c.access :
        /\ a.level \in DOMAIN imgs[a.image].layout
        /\ imgs[a.image].layout[a.level] = a.layout

\* The layouts a unit may leave behind: the general layout, and the undefined
\* one of images still to be initialised while the initial transitions run
Settled(imgs, unit) ==
    \A i \in DOMAIN imgs : \A l \in DOMAIN imgs[i].layout :
        \/ imgs[i].layout[l] = "General"
        \/ unit.kind = "Allocate" /\ imgs[i].layout[l] = "Undefined"

GpuState(imgs, layouts_ok, settled) ==
    [images |-> imgs, layouts_ok |-> layouts_ok, settled |-> settled]

RECURSIVE ExecCmds(_, _, _)
ExecCmds(G, cmds, i) ==
    IF i > Len(cmds) THEN G
    ELSE LET c == cmds[i]
         IN CHOOSE after \in
                {IF c.cmd = "pipelineBarrier"
                 THEN ExecCmds(GpuState(ApplyBarrier(g.images, c),
                                        g.layouts_ok /\ BarrierOk(g.images, c), g.settled),
                               cmds, i + 1)
                 ELSE ExecCmds(GpuState(g.images, g.layouts_ok /\ AccessOk(g.images, c),
                                        g.settled),
                               cmds, i + 1) : g \in {G}} : TRUE

\* The units of a command buffer in the order they were recorded
RECURSIVE ExecUnits(_, _, _)
ExecUnits(G, units, i) ==
    IF i > Len(units) THEN G
    ELSE CHOOSE after \in
             {ExecUnits(GpuState(G1.images, G1.layouts_ok,
                                 G1.settled /\ Settled(G1.images, units[i])),
                        units, i + 1) : G1 \in {ExecCmds(G, units[i].cmds, 1)}} : TRUE

\* A submission: the upload command buffer executes before the render command buffer
Submit(G, upload, render) == ExecUnits(ExecUnits(G, upload, 1), render, 1)


---------------------------------------------------------------------------
(* The state machine *)

\* The device profiles a backend can run on.  OpenGL: desktop GL or GLES.
Devices(be) ==
    CASE be = "vk" -> DeviceProfiles
      [] be = "gl" -> {"gl", "gles"}
      [] OTHER -> {"gl"}

\* Bytes per pixel of a guest pixel format (the size of a staging region)
GetBytesPerPixel(pixel_format) ==
    CASE pixel_format \in {"RGBA8", "D24S8"} -> 4
      [] pixel_format \in {"RGB8", "D24"} -> 3
      [] OTHER -> 2

GpuStart == [layouts_ok |-> TRUE, settled |-> TRUE]

\* The runtime as an operation finds it
Now == Runtime(texture_recycler, images, upload_cmdbuf, render_cmdbuf)

\* What an operation did
Done(op, slot, input, R) ==
    [op |-> op, slot |-> slot, input |-> input, alloc |-> R.alloc, hit |-> R.hit,
     created |-> R.created, units |-> R.units, ephem |-> R.ephem, commits |-> R.commits,
     recycled |-> NoAlloc, ret |-> R.ret, calls |-> R.calls, logged |-> R.logged,
     began |-> R.began, inside |-> R.inside, nesting |-> R.nesting]

Apply(R) ==
    /\ texture_recycler' = R.recycler
    /\ images' = R.images
    /\ upload_cmdbuf' = R.upload
    /\ render_cmdbuf' = R.render

Live(slot) == surfaces[slot] # NoSurface /\ surfaces[slot].alloc # NoAlloc

\* The rectangles of a surface (unscaled coordinates) the cache transfers:
\* the whole surface and its last texel
RectsOf(s) == {Rect(0, s.height, s.width, 0), Rect(s.width - 1, s.height, s.width, s.height - 1)}

\* The mip levels the cache transfers: the base level, and level 1 of a whole
\* surface whose image has one
TransferLevels(imgs, s, rect) ==
    {0} \cup (IF imgs[s.alloc].levels > 1 /\ rect = Rect(0, s.height, s.width, 0)
              THEN {1} ELSE {})

\* The recycler key of the ephemeral surface an upload or download constructs
EphemeralKey(be, dev, s, rect, op) ==
    IF be = "vk" /\ op = "Download" /\ s.type = "DepthStencil"
    THEN LET p == R32Params(s, rect)
         IN HostTextureTag("R32Uint", p.pixel_format, p.texture_type,
                           GetScaledWidth(p), GetScaledHeight(p), 1)
    ELSE ParamsTag(be, dev, UnscaledParams(s, rect))

NeedsEphemeral(be, s, op) ==
    s.res_scale # 1 \/ (be = "vk" /\ op = "Download" /\ s.type = "DepthStencil")

EphemeralPicks(be, dev, s, rect, op) ==
    IF NeedsEphemeral(be, s, op)
    THEN Picks(texture_recycler, EphemeralKey(be, dev, s, rect, op))
    ELSE {NoEntry}

\* Room for one more image, unless none is created
Room(pick) == pick # NoEntry \/ Len(images) < MaxImages

StagingFor(be, s, rect, buffer) ==
    StagingData(buffer,
                GetWidth(rect) * GetHeight(rect) *
                    (IF be = "vk" THEN GetInternalBytesPerPixel(s.format)
                     ELSE GetBytesPerPixel(s.pixel_format)),
                0)

\* The allocation the operation just before recycled under the tag, if it did
JustRecycled(tag) ==
    IF /\ last.op = "SurfaceDtor"
       /\ last.input.pixel_format # "Invalid"
       /\ SurfaceTag(backend, last.input) = tag
    THEN last.input.alloc
    ELSE NoAlloc

\* The cache-level specification follows no image contents, no staging bytes
\* and no scheduler state, and its driver never fails
Unbuilt ==
    /\ framebuffer_cache = <<>>
    /\ download_buffer = <<>>
    /\ upload_buffer = <<>>
    /\ pool = <<>>
    /\ threads = <<>>
    /\ apt = <<>>
    /\ memory = <<>>

Untracked ==
    /\ pixels = <<>>
    /\ mapped = <<>>
    /\ scheduler = <<>>
    /\ process = "running"
    /\ Unbuilt

Init ==
    /\ backend \in {"vk", "gl", "legacy"}
    /\ device \in Devices(backend)
    /\ surfaces = [slot \in Slots |-> NoSurface]
    /\ texture_recycler = {}
    /\ images = <<>>
    /\ upload_cmdbuf = <<>>
    /\ render_cmdbuf = <<>>
    /\ gpu = GpuStart
    /\ last = Done("Init", 0, <<>>, Now)
    /\ Untracked

\* The rasterizer cache constructs a Surface; it keeps it in its first free slot
CreateSurface(slot) ==
    /\ surfaces[slot] = NoSurface
    /\ \A other \in Slots : other < slot => surfaces[other] # NoSurface
    /\ \E p \in ParamSet :
       \E pick \in Picks(texture_recycler, ParamsTag(backend, device, p)) :
          /\ backend = "legacy" => p.texture_type = "Texture2D"
          /\ p.pixel_format # "Invalid" => Room(pick)
          /\ LET R == SurfaceCtor(backend, device, Now, p, pick)
             IN /\ Apply(R)
                /\ surfaces' = [surfaces EXCEPT ![slot] = Constructed(R, p)]
                /\ last' = [Done("SurfaceCtor", slot, p, R) EXCEPT
                                !.recycled = JustRecycled(ParamsTag(backend, device, p))]
    /\ UNCHANGED <<backend, device, gpu>>
    /\ UNCHANGED details

\* The rasterizer cache destroys a Surface
DestroySurface(slot) ==
    /\ surfaces[slot] # NoSurface
    /\ LET R == SurfaceDtor(backend, Now, surfaces[slot])
       IN /\ Apply(R)
          /\ last' = Done("SurfaceDtor", slot, surfaces[slot], R)
    /\ surfaces' = [surfaces EXCEPT ![slot] = NoSurface]
    /\ UNCHANGED <<backend, device, gpu>>
    /\ UNCHANGED details

\* Surface::Upload
Upload(slot) ==
    /\ backend \in {"vk", "gl"}
    /\ Live(slot)
    /\ Len(render_cmdbuf) < MaxPending
    /\ LET s == surfaces[slot]
       IN \E rect \in RectsOf(s) : \E level \in TransferLevels(images, s, rect) :
          \E pick \in EphemeralPicks(backend, device, s, rect, "Upload") :
          \E filtered \in (IF backend = "gl" /\ s.res_scale # 1 THEN BOOLEAN ELSE {FALSE}) :
             /\ Room(pick) \/ ~NeedsEphemeral(backend, s, "Upload")
             /\ LET staging == StagingFor(backend, s, rect, "upload_buffer")
                    upload == BufferTextureCopy(0, staging.size, rect, level)
                    R == IF backend = "vk"
                         THEN UploadVk(device, Now, s, upload, staging, pick)
                         ELSE UploadGL(device, Now, s, upload, staging, pick, filtered)
                IN /\ Apply(R)
                   /\ last' = Done("Upload", slot, upload, R)
    /\ UNCHANGED <<backend, device, surfaces, gpu>>
    /\ UNCHANGED details

\* CachedSurface::UploadGLTexture
LegacyUpload(slot) ==
    /\ backend = "legacy"
    /\ Live(slot)
    /\ LET s == surfaces[slot]
       IN \E rect \in RectsOf(s) :
          \E pick \in EphemeralPicks(backend, device, s, rect, "Upload") :
          \E filtered \in (IF s.res_scale # 1 THEN BOOLEAN ELSE {FALSE}) :
             /\ Room(pick) \/ s.res_scale = 1
             /\ LET R == UploadGLTexture(Now, s, rect, pick, filtered)
                IN /\ Apply(R)
                   /\ last' = Done("UploadGLTexture", slot,
                                   BufferTextureCopy(0, 0, rect, 0), R)
    /\ UNCHANGED <<backend, device, surfaces, gpu>>
    /\ UNCHANGED details

\* Surface::Download
Download(slot) ==
    /\ backend \in {"vk", "gl"}
    /\ Live(slot)
    /\ Len(render_cmdbuf) < MaxPending
    /\ LET s == surfaces[slot]
       IN \E rect \in RectsOf(s) : \E level \in TransferLevels(images, s, rect) :
          \E pick \in EphemeralPicks(backend, device, s, rect, "Download") :
             /\ Room(pick) \/ ~NeedsEphemeral(backend, s, "Download")
             /\ LET staging == StagingFor(backend, s, rect, "download_buffer")
                    download == BufferTextureCopy(0, staging.size, rect, level)
                    R == IF backend = "vk"
                         THEN DownloadVk(device, Now, s, download, staging, pick)
                         ELSE DownloadGL(device, Now, s, download, staging, pick)
                IN /\ Apply(R)
                   /\ last' = Done("Download", slot, download, R)
    /\ UNCHANGED <<backend, device, surfaces, gpu>>
    /\ UNCHANGED details

\* The value the cache clears a fill surface with
FillValue == "fill"

\* TextureRuntime::ClearTexture
ClearTexture(slot) ==
    /\ backend \in {"vk", "gl"}
    /\ Live(slot)
    /\ Len(render_cmdbuf) < MaxPending
    /\ LET s == surfaces[slot]
       IN \E rect \in RectsOf(s) :
             LET clear == TextureClearValue(0, RectScale(rect, s.res_scale), FillValue)
                 R == IF backend = "vk"
                      THEN ClearTextureVk(Now, s, TextureClear(clear.texture_level,
                                                               clear.texture_rect),
                                          clear.value)
                      ELSE ClearTextureGL(Now, s, clear)
             IN /\ Apply(R)
                /\ last' = Done("ClearTexture", slot, clear, R)
    /\ UNCHANGED <<backend, device, surfaces, gpu>>
    /\ UNCHANGED details

\* TextureRuntime::CopyTextures between two surfaces of one type
CopyTextures(src, dst) ==
    /\ backend \in {"vk", "gl"}
    /\ src # dst /\ Live(src) /\ Live(dst)
    /\ surfaces[src].type = surfaces[dst].type
    /\ Len(render_cmdbuf) < MaxPending
    /\ LET source == surfaces[src]
           dest == surfaces[dst]
           copy == TextureCopy(0, 0, <<0, 0>>, <<0, 0>>, <<1, 1>>)
           R == IF backend = "vk" THEN CopyTexturesVk(Now, source, dest, copy)
                ELSE CopyTexturesGL(Now, source, dest, copy)
       IN /\ Apply(R)
          /\ last' = Done("CopyTextures", src, [copy |-> copy, dst |-> dst], R)
    /\ UNCHANGED <<backend, device, surfaces, gpu>>
    /\ UNCHANGED details

\* TextureRuntime::BlitTextures between two surfaces of one type
BlitTextures(src, dst) ==
    /\ backend \in {"vk", "gl"}
    /\ src # dst /\ Live(src) /\ Live(dst)
    /\ surfaces[src].type = surfaces[dst].type
    /\ Len(render_cmdbuf) < MaxPending
    /\ LET source == surfaces[src]
           dest == surfaces[dst]
           blit == TextureBlit(0, 0, GetScaledRect(source), GetScaledRect(dest))
           R == IF backend = "vk" THEN BlitTexturesVk(Now, source, dest, blit)
                ELSE BlitTexturesGL(Now, source, dest, blit)
       IN /\ Apply(R)
          /\ last' = Done("BlitTextures", src, [blit |-> blit, dst |-> dst], R)
    /\ UNCHANGED <<backend, device, surfaces, gpu>>
    /\ UNCHANGED details

\* TextureRuntime::Finish: everything recorded is submitted and has executed
\* when it returns
Finish ==
    /\ backend = "vk"
    /\ LET G == Submit(GpuState(images, gpu.layouts_ok, gpu.settled),
                       upload_cmdbuf, render_cmdbuf)
       IN /\ images' = G.images
          /\ gpu' = [layouts_ok |-> G.layouts_ok, settled |-> G.settled]
    /\ upload_cmdbuf' = <<>>
    /\ render_cmdbuf' = <<>>
    /\ last' = Done("Finish", 0, <<>>,
                    [Runtime(texture_recycler, images', <<>>, <<>>) EXCEPT
                        !.units = upload_cmdbuf \o render_cmdbuf])
    /\ UNCHANGED <<backend, device, surfaces, texture_recycler>>
    /\ UNCHANGED details

Next ==
    \/ \E slot \in Slots : CreateSurface(slot)
    \/ \E slot \in Slots : DestroySurface(slot)
    \/ \E slot \in Slots : Upload(slot)
    \/ \E slot \in Slots : LegacyUpload(slot)
    \/ \E slot \in Slots : Download(slot)
    \/ \E slot \in Slots : ClearTexture(slot)
    \/ \E src, dst \in Slots : CopyTextures(src, dst)
    \/ \E src, dst \in Slots : BlitTextures(src, dst)
    \/ Finish

Spec == Init /\ [][Next]_vars


---------------------------------------------------------------------------
(* Properties of the texture recycler *)

Owned == {surfaces[slot].alloc : slot \in {x \in Slots : Live(x)}}
Pooled == {e.alloc : e \in texture_recycler}

\* C1: no image allocation is owned by two live Surfaces at once, and none is
\* owned by a live Surface while it is in the recycler.  The ephemeral
\* Surfaces of an upload or download count as live while their operation runs.
C1_ExclusiveOwnership ==
    /\ \A a, b \in Slots :
          (a # b /\ Live(a) /\ Live(b)) => surfaces[a].alloc # surfaces[b].alloc
    /\ Owned \cap Pooled = {}
    /\ \A i \in DOMAIN last.ephem :
          LET e == last.ephem[i]
          IN e.surface.alloc # NoAlloc =>
                /\ e.surface.alloc \notin e.pooled
                /\ e.surface.alloc \notin Owned

\* Two live surfaces, the one constructed last out of the recycler
C1_Witness ==
    /\ last.op = "SurfaceCtor" /\ last.hit
    /\ \A slot \in Slots : Live(slot)

\* C2 as stated: an Allocate that follows at once on the Recycle of an
\* allocation under the same tag returns that very allocation, takes it out of
\* the recycler and creates no image.
C2_ReturnsTheRecycled ==
    (last.op = "SurfaceCtor" /\ last.recycled # NoAlloc) =>
        /\ last.alloc = last.recycled
        /\ last.recycled \notin Pooled
        /\ last.created = 0

\* C2 amended: such an Allocate creates no image and returns an allocation that
\* was pooled under the tag, which it takes out of the recycler, removing that
\* one entry; it is the allocation just recycled when no other entry with an
\* equal tag was pooled.
C2_ReturnsOneOfEqualTag ==
    [][(last'.op = "SurfaceCtor" /\ last'.recycled # NoAlloc) =>
          LET key == ParamsTag(backend, device, last'.input)
              taken == [tag |-> key, alloc |-> last'.alloc]
          IN /\ last'.hit /\ last'.created = 0 /\ images' = images
             /\ taken \in texture_recycler
             /\ texture_recycler' = texture_recycler \ {taken}
             /\ Cardinality(Find(texture_recycler, key)) = 1 => last'.alloc = last'.recycled
      ]_vars

\* The Allocate right after a Recycle returned another allocation of that tag
C2_Witness ==
    /\ last.op = "SurfaceCtor" /\ last.recycled # NoAlloc
    /\ last.hit /\ last.alloc # last.recycled
    /\ last.recycled \in Pooled

\* C3: the recycler is a multiset.  Destroying a Surface of a valid pixel
\* format adds exactly one entry, under its tag, and frees no image, also when
\* an entry of that tag is pooled already; an Allocate that hits removes
\* exactly one entry and creates no image; one that misses leaves the recycler
\* alone and creates one image.
C3_Multiset ==
    [][/\ (last'.op = "SurfaceDtor" /\ last'.input.pixel_format # "Invalid") =>
             LET added == [tag |-> SurfaceTag(backend, last'.input),
                           alloc |-> last'.input.alloc]
             IN /\ texture_recycler' = texture_recycler \cup {added}
                /\ Cardinality(texture_recycler') = Cardinality(texture_recycler) + 1
                /\ Cardinality(Find(texture_recycler', added.tag)) =
                       Cardinality(Find(texture_recycler, added.tag)) + 1
                /\ images' = images
       /\ (last'.op = "SurfaceDtor" /\ last'.input.pixel_format = "Invalid") =>
             texture_recycler' = texture_recycler
       /\ (last'.op = "SurfaceCtor" /\ last'.hit) =>
             /\ Cardinality(texture_recycler') = Cardinality(texture_recycler) - 1
             /\ last'.created = 0 /\ images' = images
       /\ (last'.op = "SurfaceCtor" /\ ~last'.hit /\ last'.alloc # NoAlloc) =>
             /\ texture_recycler' = texture_recycler
             /\ last'.created = 1 /\ Len(images') = Len(images) + 1
      ]_vars

\* The end of the scenario: two images were created, both pooled under one
\* tag, and an Allocate of that shape took one, leaving one entry
C3_Witness ==
    /\ last.op = "SurfaceCtor" /\ last.hit /\ last.created = 0
    /\ Len(images) = 2
    /\ Cardinality(texture_recycler) = 1
    /\ \A e \in texture_recycler : e.tag = ParamsTag(backend, device, last.input)

\* C4: an Allocate returns a pooled allocation only of an entry whose tag
\* equals the requested tag in every field, and the tag a Surface is recycled
\* under is the tag the construction of a Surface of its parameters looks up.
C4_TagEquality ==
    /\ [](\A slot \in Slots : Live(slot) =>
             SurfaceTag(backend, surfaces[slot]) = ParamsTag(backend, device, surfaces[slot]))
    /\ [][/\ (last'.op = "SurfaceCtor" /\ last'.hit) =>
                \E e \in texture_recycler :
                    /\ e.alloc = last'.alloc
                    /\ e.tag = ParamsTag(backend, device, last'.input)
                    /\ e.tag = SurfaceTag(backend, surfaces'[last'.slot])
          /\ \A i \in DOMAIN last'.ephem :
                last'.ephem[i].hit =>
                    \E e \in texture_recycler :
                        /\ e.alloc = last'.ephem[i].surface.alloc
                        /\ e.tag = SurfaceTag(backend, last'.ephem[i].surface)
         ]_vars

\* An Allocate hit while the recycler also held an entry of the same host
\* format and shape but another pixel format, which stays pooled
C4_Witness ==
    /\ last.op = "SurfaceCtor" /\ last.hit
    /\ \E e \in texture_recycler :
          LET key == ParamsTag(backend, device, last.input)
          IN /\ e.tag.format = key.format /\ e.tag.width = key.width
             /\ e.tag.height = key.height /\ e.tag.type = key.type
             /\ e.tag.pixel_format # key.pixel_format


---------------------------------------------------------------------------
(* Properties of the recorded work *)

\* Every command of a sequence of units, in order
RECURSIVE Commands(_)
Commands(units) ==
    IF units = <<>> THEN <<>> ELSE Head(units).cmds \o Commands(Tail(units))

Barrier(c) == c.cmd = "pipelineBarrier"

\* The barriers of a unit before / after position t that cover an access
BarrierFor(c, a, old, new) ==
    /\ Barrier(c) /\ c.image = a.image /\ c.level = a.level /\ c.levelCount = 1
    /\ c.oldLayout = old /\ c.newLayout = new

TransferLayout(mode) == IF mode = "read" THEN "TransferSrcOptimal" ELSE "TransferDstOptimal"

\* C5: a miss of Allocate creates one image, in the undefined layout, and
\* records its transition, all levels, to the general layout; an image is
\* uninitialised only while that transition is pending, and no executed
\* command ever found an image in another layout than the one it expects (the
\* general one, for the first command of every unit on it).
C5_GeneralBeforeUse ==
    backend = "vk" =>
        /\ (last.op = "SurfaceCtor" /\ ~last.hit /\ last.alloc # NoAlloc) =>
              /\ last.created = 1
              /\ last.alloc = Len(images)
              /\ \A l \in DOMAIN images[last.alloc].layout :
                    images[last.alloc].layout[l] = "Undefined"
              /\ last.units = <<Unit("Allocate", "upload",
                                    <<ImageBarrierRange(last.alloc, images[last.alloc].aspect, 0,
                                                        VK_REMAINING_MIP_LEVELS,
                                                        "Undefined", "General")>>)>>
        /\ \A i \in DOMAIN images :
              (\E l \in DOMAIN images[i].layout : images[i].layout[l] # "General") =>
                  /\ \A l \in DOMAIN images[i].layout : images[i].layout[l] = "Undefined"
                  /\ \E k \in DOMAIN upload_cmdbuf :
                        upload_cmdbuf[k].cmds =
                            <<ImageBarrierRange(i, images[i].aspect, 0, VK_REMAINING_MIP_LEVELS,
                                                "Undefined", "General")>>
        /\ gpu.layouts_ok

\* A submission executed the initial transition of a fresh image and, after
\* it, an upload into that image
C5_Witness ==
    /\ last.op = "Finish" /\ gpu.layouts_ok
    /\ \E i, j \in DOMAIN last.units :
          /\ i < j
          /\ last.units[i].kind = "Allocate" /\ last.units[j].kind = "Upload"
          /\ last.units[i].cmds[1].image = last.units[j].cmds[1].image
          /\ images[last.units[i].cmds[1].image].layout[0] = "General"

TransferKinds == {"ClearTexture", "CopyTextures", "BlitTextures", "Upload", "Download"}

\* A unit is barriers, one transfer, barriers; every subresource the transfer
\* touches is taken from the general layout to its transfer layout before the
\* transfer and back after it, and the unit has no other barrier
Bracketed(u) ==
    \E t \in DOMAIN u.cmds :
        /\ ~Barrier(u.cmds[t])
        /\ \A i \in DOMAIN u.cmds : i # t => Barrier(u.cmds[i])
        /\ u.cmds[t].access # {}
        /\ \A a \in u.cmds[t].access :
              /\ a.layout = TransferLayout(a.mode)
              /\ \E i \in 1..(t - 1) : BarrierFor(u.cmds[i], a, "General", a.layout)
              /\ \E i \in (t + 1)..Len(u.cmds) : BarrierFor(u.cmds[i], a, a.layout, "General")
        /\ \A i \in DOMAIN u.cmds : i # t =>
              \E a \in u.cmds[t].access :
                  \/ i < t /\ BarrierFor(u.cmds[i], a, "General", a.layout)
                  \/ i > t /\ BarrierFor(u.cmds[i], a, a.layout, "General")

\* C6: every unit recorded by the fast path of ClearTexture, by CopyTextures,
\* BlitTextures, Upload and Download brackets its transfer with the layout
\* transitions; no executed unit left an image outside the general layout,
\* and after a submission every image is in the general layout.
C6_TransferBrackets ==
    backend = "vk" =>
        /\ \A k \in DOMAIN render_cmdbuf :
              render_cmdbuf[k].kind \in TransferKinds => Bracketed(render_cmdbuf[k])
        /\ \A k \in DOMAIN last.units :
              last.units[k].kind \in TransferKinds => Bracketed(last.units[k])
        /\ gpu.settled /\ gpu.layouts_ok
        /\ last.op = "Finish" =>
              \A i \in DOMAIN images : \A l \in DOMAIN images[i].layout :
                  images[i].layout[l] = "General"

\* A submission executed the units of a scaled upload: the upload into the
\* ephemeral image, then the blit
C6_Witness ==
    /\ last.op = "Finish" /\ gpu.settled
    /\ \E i, j \in DOMAIN last.units :
          /\ i < j
          /\ last.units[i].kind = "Upload" /\ last.units[j].kind = "BlitTextures"
          /\ Len(last.units[j].cmds) = 5


---------------------------------------------------------------------------
(* Properties of the scaled and depth-stencil paths *)

\* Whether the last operation was op on a surface with a resolution scale
ScaledOp(ops) ==
    /\ last.op \in ops
    /\ surfaces[last.slot].res_scale # 1

IsDirectWrite(c) == c.cmd \in {"copyBufferToImage", "glTexSubImage2D"}
IsBlit(c) == c.cmd \in {"blitImage", "glBlitFramebuffer"}
IsReadback(c) == c.cmd \in {"copyImageToBuffer", "glReadPixels", "glGetTexImage"}

\* C7 as stated: an Upload on a surface with a resolution scale constructs
\* one ephemeral surface at scale 1 of the size of the upload rectangle,
\* records the direct buffer copy into it and after it the blit from it into
\* the destination, and records no direct buffer copy into the destination.
C7_ScaledUploadStages ==
    ScaledOp({"Upload"}) =>
        LET s == surfaces[last.slot]
            rect == last.input.texture_rect
            cmds == Commands(last.units)
        IN /\ Len(last.ephem) = 1
           /\ last.ephem[1].surface.res_scale = 1
           /\ last.ephem[1].surface.width = GetWidth(rect)
           /\ last.ephem[1].surface.height = GetHeight(rect)
           /\ \E i, j \in DOMAIN cmds :
                 /\ i < j
                 /\ IsDirectWrite(cmds[i]) /\ cmds[i].image = last.ephem[1].surface.alloc
                 /\ IsBlit(cmds[j]) /\ cmds[j].src = last.ephem[1].surface.alloc
                 /\ cmds[j].dst = s.alloc
           /\ \A i \in DOMAIN cmds : IsDirectWrite(cmds[i]) => cmds[i].image # s.alloc

\* C8 as stated: the upscale blit of every scaled upload path reads the whole
\* ephemeral surface, (0,0)-(w,h) of level 0, and writes the upload rectangle
\* times the resolution scale at the requested mip level.
C8_UpscaleBlitRects ==
    ScaledOp({"Upload", "UploadGLTexture"}) =>
        LET s == surfaces[last.slot]
            rect == last.input.texture_rect
            cmds == Commands(last.units)
        IN \A i \in DOMAIN cmds :
              IsBlit(cmds[i]) =>
                 /\ cmds[i].blit.src_level = 0
                 /\ cmds[i].blit.src_rect = Rect(0, GetHeight(rect), GetWidth(rect), 0)
                 /\ cmds[i].blit.dst_rect = RectScale(rect, s.res_scale)
                 /\ cmds[i].blit.dst_level = last.input.texture_level

\* C9: every blit the runtime issues, those of the scaled and depth-stencil
\* paths included, filters nearest when the pixel format of its source is a
\* depth format (D16, D24, D24S8) and linear otherwise.  Every source of a
\* blit of an operation has the pixel format of the surface operated on.
C9_BlitFilter ==
    last.op \in {"Upload", "UploadGLTexture", "Download", "BlitTextures"} =>
        LET cmds == Commands(last.units)
        IN \A i \in DOMAIN cmds :
              IsBlit(cmds[i]) =>
                 cmds[i].filter = (IF surfaces[last.slot].pixel_format \in {"D16", "D24", "D24S8"}
                                   THEN "Nearest" ELSE "Linear")

\* The downscale inside the R32 image of a scaled depth-stencil download
C9_Witness ==
    /\ backend = "vk" /\ ScaledOp({"Download"})
    /\ surfaces[last.slot].pixel_format = "D24S8"
    /\ \E k \in DOMAIN last.units :
          /\ last.units[k].kind = "BlitTextures"
          /\ last.units[k].cmds[3].src = last.units[k].cmds[3].dst
          /\ last.units[k].cmds[3].filter = "Nearest"
          /\ images[last.units[k].cmds[3].src].format = "R32Uint"

\* C10 as stated: a Download of a depth-stencil surface reads back only from
\* a 32-bit single-channel colour image that the depth-stencil data was
\* converted into before.
C10_NoDirectDepthStencilReadback ==
    (last.op = "Download" /\ surfaces[last.slot].type = "DepthStencil") =>
        LET cmds == Commands(last.units)
        IN /\ \E i \in DOMAIN cmds : IsReadback(cmds[i])
           /\ \A i \in DOMAIN cmds :
                 IsReadback(cmds[i]) =>
                    /\ cmds[i].image # surfaces[last.slot].alloc
                    /\ images[cmds[i].image].format = "R32Uint"
                    /\ \E j \in 1..(i - 1) :
                          /\ cmds[j].cmd = "dispatch"
                          /\ cmds[j].src = surfaces[last.slot].alloc
                          /\ cmds[j].dst = cmds[i].image


\* C11: a Download on a colour or depth-only surface with a resolution scale
\* constructs one ephemeral surface at scale 1 of the size of the download
\* rectangle, records the blit of the rectangle times the scale out of the
\* surface into it, and reads back only after that blit and only from the
\* ephemeral surface, never from the scaled image.
C11_ScaledDownloadStages ==
    (ScaledOp({"Download"}) /\ surfaces[last.slot].type # "DepthStencil") =>
        LET s == surfaces[last.slot]
            rect == last.input.texture_rect
            cmds == Commands(last.units)
        IN /\ Len(last.ephem) = 1
           /\ last.ephem[1].surface.res_scale = 1
           /\ last.ephem[1].surface.width = GetWidth(rect)
           /\ last.ephem[1].surface.height = GetHeight(rect)
           /\ last.ephem[1].surface.alloc # s.alloc
           /\ \E i \in DOMAIN cmds : IsReadback(cmds[i])
           /\ \A i \in DOMAIN cmds :
                 IsReadback(cmds[i]) =>
                    /\ cmds[i].image = last.ephem[1].surface.alloc
                    /\ \E j \in 1..(i - 1) :
                          /\ IsBlit(cmds[j])
                          /\ cmds[j].src = s.alloc
                          /\ cmds[j].dst = last.ephem[1].surface.alloc
                          /\ cmds[j].blit.src_rect = RectScale(rect, s.res_scale)
                          /\ cmds[j].blit.src_level = last.input.texture_level

\* A scaled download of the last texel of a depth-only surface
C11_Witness ==
    /\ ScaledOp({"Download"}) /\ surfaces[last.slot].type = "Depth"
    /\ last.input.texture_rect.bottom > 0
    /\ \E i \in DOMAIN Commands(last.units) : IsReadback(Commands(last.units)[i])


---------------------------------------------------------------------------
(* Properties of ClearTexture *)

IsClearImage(c) == c.cmd \in {"clearColorImage", "clearDepthStencilImage"}

\* C12: the Vulkan ClearTexture records the one clear-image command, with a
\* barrier before and a barrier after it, exactly when the clear rectangle
\* is the full scaled rectangle of the surface; otherwise it clears through a
\* render pass whose render area is the clear rectangle.  It returns true in
\* both cases.
C12_ClearPaths ==
    (backend = "vk" /\ last.op = "ClearTexture") =>
        LET s == surfaces[last.slot]
            rect == last.input.texture_rect
            cmds == Commands(last.units)
            fast == /\ Len(cmds) = 3
                    /\ Barrier(cmds[1]) /\ IsClearImage(cmds[2]) /\ Barrier(cmds[3])
                    /\ \A i \in {1, 2, 3} : cmds[i].image = s.alloc
            slow == /\ Len(cmds) = 2
                    /\ cmds[1].cmd = "beginRenderPass" /\ cmds[2].cmd = "endRenderPass"
                    /\ cmds[1].image = s.alloc
                    /\ cmds[1].render_area.offset = <<rect.left, rect.bottom>>
                    /\ cmds[1].render_area.extent = <<GetWidth(rect), GetHeight(rect)>>
        IN /\ last.ret = TRUE
           /\ Len(last.units) = 1
           /\ (rect = GetScaledRect(s)) <=> fast
           /\ (rect # GetScaledRect(s)) <=> slow

\* A clear of the last texel of a surface of more than one texel
C12_Witness ==
    /\ backend = "vk" /\ last.op = "ClearTexture" /\ last.ret = TRUE
    /\ last.input.texture_rect # GetScaledRect(surfaces[last.slot])
    /\ last.units[1].kind = "ClearTextureWithRenderpass"


---------------------------------------------------------------------------
(* The contents of an image under ClearTexture *)

\* VideoCore::ClearRect of the older runtime
ClearRect(surface_type, texture_level, offset, extent) ==
    [surface_type |-> surface_type, texture_level |-> texture_level,
     rect |-> [offset |-> offset, extent |-> extent]]

\* TextureRuntime::ClearTexture of the older runtime: a scissored clear of the
\* level bound to the draw framebuffer
ClearTextureLegacy(R, texture, rect, value) ==
    Return(Record(R, Unit("ClearTexture", "gl",
                   <<[cmd |-> "glClearBuffer", image |-> texture, level |-> rect.texture_level,
                      value |-> value,
                      scissor |-> [x |-> rect.rect.offset[1], y |-> rect.rect.offset[2],
                                   width |-> rect.rect.extent[1],
                                   height |-> rect.rect.extent[2]],
                      mask |-> MakeBufferMask(rect.surface_type)]>>)), TRUE)

\* The size of mip level l of an image side of n texels
LevelSize(n, l) == Max(1, n \div (2 ^ l))

\* The texels of every level of an image, all holding value
PixelsOf(img, value) ==
    [l \in 0..(img.levels - 1) |->
        [pos \in (0..(LevelSize(img.width, l) - 1)) \X (0..(LevelSize(img.height, l) - 1)) |->
            value]]

\* Whether a texel lies in the box of origin (x, y) and the given size
InBox(pos, x, y, width, height) ==
    /\ x <= pos[1] /\ pos[1] < x + width
    /\ y <= pos[2] /\ pos[2] < y + height

\* What a command does to the contents of the images: a clear-image command
\* writes the whole level, a clearing render pass the render area of its
\* attachment, a scissored glClearBuffer the scissor box of the bound level
ExecPixel(px, c) ==
    CASE c.cmd \in {"clearColorImage", "clearDepthStencilImage"} ->
            [px EXCEPT ![c.image][c.level] = [pos \in DOMAIN @ |-> c.value]]
      [] c.cmd = "beginRenderPass" ->
            [px EXCEPT ![c.image][c.level] =
                [pos \in DOMAIN @ |->
                    IF InBox(pos, c.render_area.offset[1], c.render_area.offset[2],
                             c.render_area.extent[1], c.render_area.extent[2])
                    THEN c.value ELSE @[pos]]]
      [] c.cmd = "glClearBuffer" ->
            [px EXCEPT ![c.image][c.level] =
                [pos \in DOMAIN @ |->
                    IF InBox(pos, c.scissor.x, c.scissor.y, c.scissor.width, c.scissor.height)
                    THEN c.value ELSE @[pos]]]
      [] OTHER -> px

RECURSIVE ExecPixels(_, _, _)
ExecPixels(px, cmds, i) ==
    IF i > Len(cmds) THEN px ELSE ExecPixels(ExecPixel(px, cmds[i]), cmds, i + 1)

\* The surfaces whose clears are followed texel by texel
ClearParams ==
    {Params("RGBA8", "Texture2D", 2, 2, 2, 1),
     Params("D16", "Texture2D", 1, 2, 2, 1),
     Params("D24S8", "Texture2D", 2, 2, 1, 1)}

ClearValues == {"a", "b"}

\* The clear rectangles (scaled coordinates): the whole surface, its last
\* texel, its first texel and its bottom row
ClearRects(s) ==
    LET w == GetScaledWidth(s)
        h == GetScaledHeight(s)
    IN {Rect(0, h, w, 0), Rect(w - 1, h, w, h - 1), Rect(0, 1, 1, 0), Rect(0, 1, w, 0)}

\* The mip levels a clear can name: the base level and the next one, if the
\* image has it
ClearLevels(img) == {l \in {0, 1} : l < img.levels}

ClearInit ==
    /\ Unbuilt
    /\ backend \in {"vk", "gl", "legacy"}
    /\ device = (IF backend = "vk" THEN "full" ELSE "gl")
    /\ texture_recycler = {}
    /\ gpu = GpuStart
    /\ mapped = <<>>
    /\ scheduler = <<>>
    /\ process = "running"
    /\ \E p \in ClearParams :
          LET R == SurfaceCtor(backend, device, Runtime({}, <<>>, <<>>, <<>>), p, NoEntry)
          IN /\ surfaces = [slot \in Slots |-> IF slot = 1 THEN Constructed(R, p) ELSE NoSurface]
             /\ images = R.images
             /\ upload_cmdbuf = R.upload
             /\ render_cmdbuf = R.render
             /\ pixels = [i \in DOMAIN R.images |-> PixelsOf(R.images[i], "old")]
             /\ last = Done("SurfaceCtor", 1, p, R)

\* TextureRuntime::ClearTexture of each runtime; the OpenGL runtimes clear at once
ClearRegion(slot) ==
    /\ Live(slot)
    /\ backend = "vk" => Len(render_cmdbuf) < MaxPending
    /\ LET s == surfaces[slot]
       IN \E rect \in ClearRects(s) : \E level \in ClearLevels(images[s.alloc]) :
          \E value \in ClearValues :
             LET clear == TextureClearValue(level, rect, value)
                 R == CASE backend = "vk" ->
                              ClearTextureVk(Now, s, TextureClear(level, rect), value)
                        [] backend = "gl" -> ClearTextureGL(Now, s, clear)
                        [] backend = "legacy" ->
                              ClearTextureLegacy(Now, s.alloc,
                                  ClearRect(s.type, level, <<rect.left, rect.bottom>>,
                                            <<GetWidth(rect), GetHeight(rect)>>),
                                  value)
             IN /\ Apply(R)
                /\ last' = Done("ClearTexture", slot, clear, R)
                /\ pixels' = IF backend = "vk" THEN pixels
                             ELSE ExecPixels(pixels, Commands(R.units), 1)
    /\ UNCHANGED <<backend, device, surfaces, gpu, mapped, scheduler, process>>
    /\ UNCHANGED components

\* TextureRuntime::Finish, with what the executed commands do to the contents
FinishClears ==
    /\ backend = "vk"
    /\ LET G == Submit(GpuState(images, gpu.layouts_ok, gpu.settled),
                       upload_cmdbuf, render_cmdbuf)
       IN /\ images' = G.images
          /\ gpu' = [layouts_ok |-> G.layouts_ok, settled |-> G.settled]
    /\ pixels' = ExecPixels(pixels, Commands(upload_cmdbuf \o render_cmdbuf), 1)
    /\ upload_cmdbuf' = <<>>
    /\ render_cmdbuf' = <<>>
    /\ last' = Done("Finish", 0, <<>>,
                    [Runtime(texture_recycler, images', <<>>, <<>>) EXCEPT
                        !.units = upload_cmdbuf \o render_cmdbuf])
    /\ UNCHANGED <<backend, device, surfaces, texture_recycler, mapped, scheduler, process>>
    /\ UNCHANGED components

ClearNext ==
    \/ \E slot \in Slots : ClearRegion(slot)
    \/ FinishClears

SpecClear == ClearInit /\ [][ClearNext]_vars

\* Whether a texel of a level lies in a rectangle
InRect(pos, rect) ==
    /\ rect.left <= pos[1] /\ pos[1] < rect.right
    /\ rect.bottom <= pos[2] /\ pos[2] < rect.top

\* The contents after a clear of the image: the clear value on the texels of
\* the cleared level inside the rectangle, the contents before elsewhere
Cleared(before, after, clear) ==
    \A l \in DOMAIN before : \A pos \in DOMAIN before[l] :
       after[l][pos] = IF l = clear.texture_level /\ InRect(pos, clear.texture_rect)
                       THEN clear.value ELSE before[l][pos]

\* C13 as stated: once a ClearTexture has executed, every texel inside the
\* clear rectangle holds the clear value and every other texel of the image
\* is as it was before; a clear of the full extent sets every texel of the
\* cleared level.
C13_ClearEffect ==
    [][/\ (backend = "vk" /\ last'.op = "Finish" /\ last.op = "ClearTexture") =>
             Cleared(pixels[surfaces[last.slot].alloc],
                     pixels'[surfaces[last.slot].alloc], last.input)
       /\ (backend # "vk" /\ last'.op = "ClearTexture") =>
             Cleared(pixels[surfaces[last'.slot].alloc],
                     pixels'[surfaces[last'.slot].alloc], last'.input)
      ]_vars


---------------------------------------------------------------------------
(* Surface::UnpackDepthStencil on the bytes of a staging region *)

\* The byte values the texels are staged from
ByteSamples == {18, 127}

\* VideoCore::MakeInt<u32>: the four bytes at an offset as a little-endian word
MakeInt(bytes, offset) ==
    bytes[offset + 1] + 256 * bytes[offset + 2] + 65536 * bytes[offset + 3] +
    16777216 * bytes[offset + 4]

\* std::memcpy(ptr, &value, 4)
StoreInt(bytes, offset, value) ==
    [bytes EXCEPT ![offset + 1] = value % 256,
                  ![offset + 2] = (value \div 256) % 256,
                  ![offset + 3] = (value \div 65536) % 256,
                  ![offset + 4] = (value \div 16777216) % 256]

\* One access of the loop to the staging region
Touch(mode, offset, length) == [mode |-> mode, offset |-> offset, length |-> length]

\* The loop with the stencil taken from the high byte of the word
RECURSIVE UnpackLoopHighByte(_, _)
UnpackLoopHighByte(st, size) ==
    IF st.stencil_offset < size
    THEN LET d24s8 == MakeInt(st.mapped, st.depth_offset)
             d24 == d24s8 % 16777216
             m1 == [st.mapped EXCEPT ![st.stencil_offset + 1] = d24s8 \div 16777216]
             m2 == StoreInt(m1, st.depth_offset, d24)
         IN UnpackLoopHighByte(
                [mapped |-> m2, depth_offset |-> st.depth_offset + 4,
                 stencil_offset |-> st.stencil_offset + 1,
                 log |-> st.log \o <<Touch("read", st.depth_offset, 4),
                                     Touch("write", st.stencil_offset, 1),
                                     Touch("write", st.depth_offset, 4)>>], size)
    ELSE st

\* The loop of the D24S8 case: each pass reads the word at depth_offset,
\* stores its low byte at stencil_offset and the word shifted right by 8 bits
\* back at depth_offset
RECURSIVE UnpackLoop(_, _)
UnpackLoop(st, size) ==
    IF st.stencil_offset < size
    THEN LET d24s8 == MakeInt(st.mapped, st.depth_offset)
             d24 == d24s8 \div 256
             m1 == [st.mapped EXCEPT ![st.stencil_offset + 1] = d24s8 % 256]
             m2 == StoreInt(m1, st.depth_offset, d24)
         IN UnpackLoop([mapped |-> m2, depth_offset |-> st.depth_offset + 4,
                        stencil_offset |-> st.stencil_offset + 1,
                        log |-> st.log \o <<Touch("read", st.depth_offset, 4),
                                            Touch("write", st.stencil_offset, 1),
                                            Touch("write", st.depth_offset, 4)>>], size)
    ELSE st

\* What a call of UnpackDepthStencil comes to: the staging bytes after it,
\* whether it returned and what, what it logged, and whether the process runs on
Unpacked(bytes, returned, ret, logged, running, log) ==
    [mapped |-> bytes, returned |-> returned, ret |-> ret, logged |-> logged,
     process |-> IF running THEN "running" ELSE "aborted", log |-> log]

\* UNREACHABLE() and a failed ASSERT end the process
Unreachable(bytes, logged, log) == Unpacked(bytes, FALSE, 0, logged, FALSE, log)

\* UnpackDepthStencil without the switch on the destination format
UnpackDepthStencilAnyFormat(data, dest) ==
    LET st == UnpackLoop([mapped |-> data.mapped, depth_offset |-> 0,
                          stencil_offset |-> (4 * data.size) \div 5, log |-> <<>>], data.size)
    IN Unpacked(st.mapped, TRUE, st.depth_offset, <<>>, TRUE, st.log)

\* UnpackDepthStencil without its closing assertion
UnpackDepthStencilUnchecked(data, dest) ==
    IF dest = "D24UnormS8Uint"
    THEN LET st == UnpackLoop([mapped |-> data.mapped, depth_offset |-> 0,
                               stencil_offset |-> (4 * data.size) \div 5, log |-> <<>>],
                              data.size)
         IN Unpacked(st.mapped, TRUE, st.depth_offset, <<>>, TRUE, st.log)
    ELSE Unreachable(data.mapped, <<"Unimplemtend convertion for depth format">>, <<>>)

\* Surface::UnpackDepthStencil
UnpackDepthStencil(data, dest) ==
    IF dest = "D24UnormS8Uint"
    THEN LET st == UnpackLoop([mapped |-> data.mapped, depth_offset |-> 0,
                               stencil_offset |-> (4 * data.size) \div 5, log |-> <<>>],
                              data.size)
         IN IF st.depth_offset = (4 * data.size) \div 5
            THEN Unpacked(st.mapped, TRUE, st.depth_offset, <<>>, TRUE, st.log)
            ELSE Unreachable(st.mapped, <<"Assertion Failed!">>, st.log)
    ELSE Unreachable(data.mapped, <<"Unimplemtend convertion for depth format">>, <<>>)

\* The host formats a depth-stencil surface is allocated in: the native format
\* or the fallback of the device
DepthStencilFormats ==
    {GetTraits("full", "D24S8").native, GetTraits("full", "D24S8").fallback}

\* The offsets FindStaging maps a region at (multiples of its alignment, 4)
StagingOffsets == {0, 12}

\* A depth-stencil surface of up to MaxTexels texels at scale 1 and the staging
\* region of an upload of all of it: GetInternalBytesPerPixel bytes a texel,
\* the interleaved words of the texels in its first 4 bytes a texel
UnpackInit ==
    /\ Unbuilt
    /\ backend = "vk"
    /\ device = "full"
    /\ texture_recycler = {}
    /\ gpu = GpuStart
    /\ pixels = <<>>
    /\ scheduler = <<>>
    /\ process = "running"
    /\ \E texels \in 1..MaxTexels : \E format \in DepthStencilFormats :
       \E offset \in StagingOffsets :
          LET p == Params("D24S8", "Texture2D", 1, texels, 1, 1)
              R == SurfaceCtorFormat(Runtime({}, <<>>, <<>>, <<>>), p, format, NoEntry)
          IN /\ surfaces = [slot \in Slots |-> IF slot = 1 THEN Constructed(R, p)
                                               ELSE NoSurface]
             /\ images = R.images
             /\ upload_cmdbuf = R.upload
             /\ render_cmdbuf = R.render
             /\ mapped \in [1..(texels * GetInternalBytesPerPixel(format)) -> ByteSamples]
             /\ last = [op |-> "FindStaging",
                        staging |-> StagingData("upload_buffer", Len(mapped), offset)]

\* The closure Surface::Upload recorded for the surface runs: it unpacks the
\* staging region and builds the copies of the depth and the stencil plane
UnpackStaging ==
    /\ process = "running"
    /\ last.op = "FindStaging"
    /\ LET s == surfaces[1]
           staging == last.staging
           upload == BufferTextureCopy(0, staging.size, Rect(0, s.height, s.width, 0), 0)
           data == [size |-> staging.size, mapped |-> mapped]
           result == UnpackDepthStencil(data, s.format)
       IN /\ mapped' = result.mapped
          /\ process' = result.process
          /\ last' = [op |-> "UnpackDepthStencil", data |-> data, dest |-> s.format,
                      staging |-> staging, returned |-> result.returned,
                      ret |-> result.ret, logged |-> result.logged, log |-> result.log,
                      units |-> IF result.returned
                                THEN <<UploadUnit(s, s.aspect, upload, staging)>> ELSE <<>>]
    /\ UNCHANGED <<backend, device, surfaces, texture_recycler, images, upload_cmdbuf,
                   render_cmdbuf, gpu, pixels, scheduler>>
    /\ UNCHANGED components

UnpackNext == UnpackStaging

SpecUnpack == UnpackInit /\ [][UnpackNext]_vars

\* C14: UnpackDepthStencil on a staging region of N interleaved D24S8 words
\* (5 bytes a texel) leaves word i shifted right by 8 bits at its offset 4i and
\* the low byte of word i at offset 4N + i, the stencil offset being 4/5 of
\* the staging size; the depth plane [0, 4N) and the stencil plane [4N, 5N)
\* are disjoint ranges of the same region, and no byte of a word is written
\* before the word has been read.
C14_UnpackPlanes ==
    (last.op = "UnpackDepthStencil" /\ last.dest = "D24UnormS8Uint") =>
        LET size == last.data.size
            N == size \div 5
            before == last.data.mapped
            stencil_offset == (4 * size) \div 5
        IN /\ last.returned /\ last.ret = 4 * N /\ stencil_offset = 4 * N
           /\ last.ret = UnpackDepthStencilOffset(size)
           /\ Len(mapped) = size
           /\ \A i \in 0..(N - 1) :
                 /\ MakeInt(mapped, 4 * i) = MakeInt(before, 4 * i) \div 256
                 /\ mapped[stencil_offset + i + 1] = MakeInt(before, 4 * i) % 256
           /\ \A k \in DOMAIN last.log :
                 last.log[k].mode = "write" =>
                    \/ /\ last.log[k].length = 1
                       /\ stencil_offset <= last.log[k].offset /\ last.log[k].offset < size
                    \/ /\ last.log[k].length = 4
                       /\ last.log[k].offset + 4 <= stencil_offset
                       /\ \E j \in 1..(k - 1) :
                             last.log[j] = Touch("read", last.log[k].offset, 4)
           /\ \A j, k \in DOMAIN last.log :
                 (j < k /\ last.log[j].mode = "write" /\ last.log[k].mode = "read") =>
                    \/ last.log[j].offset + last.log[j].length <= last.log[k].offset
                    \/ last.log[k].offset + last.log[k].length <= last.log[j].offset

\* Two texels whose words differ in their low byte have been unpacked
C14_Witness ==
    /\ last.op = "UnpackDepthStencil" /\ last.dest = "D24UnormS8Uint" /\ last.returned
    /\ last.data.size = 10
    /\ last.data.mapped[1] # last.data.mapped[5]
    /\ mapped[9] = last.data.mapped[1] /\ mapped[10] = last.data.mapped[5]

\* C16: UnpackDepthStencil for a destination format other than D24S8 logs the
\* error and ends in the unreachable trap: it does not return, so no stencil
\* offset reaches a copy, and the staging bytes are as they were.
C16_UnpackOtherFormat ==
    (last.op = "UnpackDepthStencil" /\ last.dest # "D24UnormS8Uint") =>
        /\ ~last.returned
        /\ last.logged # <<>>
        /\ process = "aborted"
        /\ mapped = last.data.mapped
        /\ last.log = <<>>

\* The call for the fallback format on a region of two texels
C16_Witness ==
    /\ last.op = "UnpackDepthStencil" /\ last.dest = "D32SfloatS8Uint"
    /\ last.data.size = 10 /\ process = "aborted"

\* The bytes of a texel a buffer copy of one aspect of an image reads
AspectBytes(format, aspect) ==
    CASE format = "D24UnormS8Uint" /\ aspect = {"Depth"} -> 4
      [] format = "D24UnormS8Uint" /\ aspect = {"Stencil"} -> 1
      [] OTHER -> GetInternalBytesPerPixel(format)

\* The bytes of the staging buffer a copy reads: [from, to)
CopyRange(copy, format) ==
    [from |-> copy.bufferOffset,
     to |-> copy.bufferOffset +
            copy.bufferRowLength * copy.bufferImageHeight * AspectBytes(format, copy.aspectMask)]

\* C15: the upload of N texels of a D24S8 surface, staged at 5 bytes a texel,
\* issues two copies out of the one staging buffer: the depth copy reads the 4N
\* bytes from the staging offset on, the stencil copy the N bytes that start
\* 4N bytes later; both ranges lie in the staging region
\* [buffer_offset, buffer_offset + size) and do not overlap.
C15_DepthStencilCopies ==
    (last.op = "UnpackDepthStencil" /\ last.dest = "D24UnormS8Uint") =>
        LET s == surfaces[1]
            N == s.width * s.height
            staging == last.staging
            write == last.units[1].cmds[2]
            depth == CopyRange(write.copies[1], s.format)
            stencil == CopyRange(write.copies[2], s.format)
        IN /\ staging.size = 5 * N
           /\ Len(last.units) = 1 /\ write.cmd = "copyBufferToImage"
           /\ write.buffer = staging.buffer /\ Len(write.copies) = 2
           /\ write.copies[1].aspectMask = {"Depth"}
           /\ write.copies[2].aspectMask = {"Stencil"}
           /\ depth = [from |-> staging.buffer_offset, to |-> staging.buffer_offset + 4 * N]
           /\ stencil = [from |-> staging.buffer_offset + 4 * N,
                         to |-> staging.buffer_offset + 5 * N]
           /\ staging.buffer_offset <= depth.from /\ depth.to <= stencil.from
           /\ stencil.to <= staging.buffer_offset + staging.size

\* The upload of two texels staged at a non-zero offset
C15_Witness ==
    /\ last.op = "UnpackDepthStencil" /\ last.dest = "D24UnormS8Uint"
    /\ last.staging.size = 10 /\ last.staging.buffer_offset > 0
    /\ Len(last.units) = 1 /\ Len(last.units[1].cmds[2].copies) = 2


---------------------------------------------------------------------------
(* Allocate when the driver fails to create the image *)

\* What vmaCreateImage answers
DriverResults == {"VK_SUCCESS", "VK_ERROR_OUT_OF_DEVICE_MEMORY"}

AllocInit == Init /\ backend = "vk"

\* The rasterizer cache constructs a Surface; the driver may fail to create
\* its image, which ends the process before the Surface exists
AllocateSurface(slot) ==
    /\ process = "running"
    /\ surfaces[slot] = NoSurface
    /\ \A other \in Slots : other < slot => surfaces[other] # NoSurface
    /\ \E p \in ParamSet :
       \E pick \in Picks(texture_recycler, ParamsTag(backend, device, p)) :
       \E result \in DriverResults :
          /\ (p.pixel_format # "Invalid" /\ result = "VK_SUCCESS") => Room(pick)
          /\ LET R == SurfaceCtor(backend, device, [Now EXCEPT !.driver = result], p, pick)
             IN /\ Apply(R)
                /\ process' = R.process
                /\ surfaces' = IF R.process = "running"
                               THEN [surfaces EXCEPT ![slot] = Constructed(R, p)]
                               ELSE surfaces
                /\ last' = Done("Allocate", slot, [params |-> p, driver |-> result], R)
    /\ UNCHANGED <<backend, device, gpu, pixels, mapped, scheduler>>
    /\ UNCHANGED components

\* The rasterizer cache destroys a Surface of the running process
ReleaseSurface(slot) ==
    /\ process = "running"
    /\ DestroySurface(slot)

AllocNext ==
    \/ \E slot \in Slots : AllocateSurface(slot)
    \/ \E slot \in Slots : ReleaseSurface(slot)

SpecAlloc == AllocInit /\ [][AllocNext]_vars

\* C17: when the driver fails to create the image of an Allocate, the failure
\* is logged and the process ends there: the caller gets no allocation (no
\* Surface comes to exist), no image is created, the recycler and the command
\* buffers are as before, the driver was called once, and nothing runs after
\* the failure, so nothing is retried.
C17_AllocateFailureAborts ==
    [][/\ process = "running"
       /\ (last'.op = "Allocate" /\ last'.calls > 0 /\ last'.input.driver # "VK_SUCCESS") =>
             /\ last'.logged = <<"Failed allocating texture with error">>
             /\ process' = "aborted"
             /\ last'.alloc = NoAlloc /\ last'.created = 0 /\ last'.calls = 1
             /\ surfaces' = surfaces
             /\ images' = images
             /\ texture_recycler' = texture_recycler
             /\ upload_cmdbuf' = upload_cmdbuf /\ render_cmdbuf' = render_cmdbuf
      ]_vars

\* The driver failed while a Surface was live and an allocation was pooled
C17_Witness ==
    /\ last.op = "Allocate" /\ last.input.driver # "VK_SUCCESS" /\ last.calls = 1
    /\ process = "aborted"
    /\ texture_recycler # {}
    /\ \E slot \in Slots : Live(slot)


---------------------------------------------------------------------------
(* The scheduler: recorded units, their execution and TextureRuntime::Finish *)

\* The scheduler with nothing recorded.  recorded is every unit recorded so
\* far with the number of the call that recorded it; upload and render are the
\* pending units of the two command buffers, executed the units that ran, all
\* three by their index in recorded; visible are the downloads whose bytes
\* the CPU sees in the download buffer.
SchedulerIdle ==
    [recorded |-> <<>>, calls |-> 0, upload |-> <<>>, render |-> <<>>, executed |-> <<>>,
     renderpass |-> FALSE, visible |-> {}, steps |-> <<>>]

\* What a step of Finish found when it began
Step(name, S) ==
    [step |-> name, renderpass |-> S.renderpass, pending |-> Len(S.upload) + Len(S.render)]

\* RenderpassCache::ExitRenderpass
ExitRenderpass(S) ==
    [S EXCEPT !.renderpass = FALSE, !.steps = Append(@, Step("ExitRenderpass", S))]

\* A submission that puts the render command buffer ahead of the upload one
SchedulerFinishRenderFirst(S) ==
    [S EXCEPT !.executed = @ \o S.render \o S.upload, !.upload = <<>>, !.render = <<>>,
              !.steps = Append(@, Step("scheduler.Finish", S))]

\* Scheduler::Finish: submits what is pending, the upload command buffer ahead
\* of the render command buffer, and waits until it has executed
SchedulerFinish(S) ==
    [S EXCEPT !.executed = @ \o S.upload \o S.render, !.upload = <<>>, !.render = <<>>,
              !.steps = Append(@, Step("scheduler.Finish", S))]

\* StreamBuffer::Invalidate of the download buffer: the CPU sees what the
\* downloads executed so far wrote
DownloadBufferInvalidate(S) ==
    [S EXCEPT !.visible = {S.executed[k] : k \in {x \in DOMAIN S.executed :
                                  S.recorded[S.executed[x]].unit.kind = "Download"}},
              !.steps = Append(@, Step("download_buffer.Invalidate", S))]

\* Finish that invalidates the download buffer before it waits
TextureRuntimeFinishInvalidateFirst(S) ==
    SchedulerFinish(DownloadBufferInvalidate(ExitRenderpass(S)))

\* Finish that does not submit
TextureRuntimeFinishNoSubmit(S) == DownloadBufferInvalidate(ExitRenderpass(S))

\* TextureRuntime::Finish
TextureRuntimeFinish(S) == DownloadBufferInvalidate(SchedulerFinish(ExitRenderpass(S)))

\* scheduler.Record of the units of one call, in the order it recorded them
RECURSIVE SchedRecord(_, _, _)
SchedRecord(S, units, i) ==
    IF i > Len(units) THEN S
    ELSE LET id == Len(S.recorded) + 1
             S1 == [S EXCEPT !.recorded = Append(@, [unit |-> units[i], call |-> S.calls]),
                             !.upload = IF units[i].cmdbuf = "upload" THEN Append(@, id) ELSE @,
                             !.render = IF units[i].cmdbuf = "render" THEN Append(@, id) ELSE @]
         IN SchedRecord(S1, units, i + 1)

\* A call of an operation of the runtime: it leaves the render pass and
\* records its units
Called(S, R) ==
    SchedRecord([ExitRenderpass(S) EXCEPT !.calls = @ + 1, !.steps = <<>>], R.units, 1)

\* The pending units of a command buffer
PendingUnits(S, ids) == [k \in DOMAIN ids |-> S.recorded[ids[k]].unit]

\* Two colour surfaces, one with a resolution scale, whose images are in use
SchedParams == <<Params("RGBA8", "Texture2D", 2, 2, 1, 1), Params("RGBA8", "Texture2D", 2, 2, 2, 1)>>

SchedInit ==
    /\ Unbuilt
    /\ backend = "vk"
    /\ device \in DeviceProfiles
    /\ texture_recycler = {}
    /\ pixels = <<>>
    /\ mapped = <<>>
    /\ process = "running"
    /\ scheduler = SchedulerIdle
    /\ LET R1 == SurfaceCtor(backend, device, Runtime({}, <<>>, <<>>, <<>>), SchedParams[1], NoEntry)
           R2 == SurfaceCtor(backend, device, R1, SchedParams[2], NoEntry)
           G == Submit(GpuState(R2.images, TRUE, TRUE), R2.upload, R2.render)
       IN /\ surfaces = <<Constructed(R1, SchedParams[1]), Constructed(R2, SchedParams[2])>>
          /\ images = G.images
          /\ gpu = [layouts_ok |-> G.layouts_ok, settled |-> G.settled]
          /\ upload_cmdbuf = <<>>
          /\ render_cmdbuf = <<>>
          /\ last = Done("Finish", 0, <<>>, Runtime({}, G.images, <<>>, <<>>))

\* The runtime after a call, its units recorded with the scheduler
Scheduled(op, slot, input, R) ==
    /\ Len(scheduler.recorded) + Len(R.units) <= MaxRecorded
    /\ Apply(R)
    /\ scheduler' = Called(scheduler, R)
    /\ last' = Done(op, slot, input, R)
    /\ UNCHANGED <<backend, device, surfaces, gpu, pixels, mapped, process>>
    /\ UNCHANGED components

\* Surface::Upload of the whole surface
SchedUpload(slot) ==
    LET s == surfaces[slot]
        rect == Rect(0, s.height, s.width, 0)
        staging == StagingFor(backend, s, rect, "upload_buffer")
        upload == BufferTextureCopy(0, staging.size, rect, 0)
    IN \E pick \in EphemeralPicks(backend, device, s, rect, "Upload") :
          Scheduled("Upload", slot, upload, UploadVk(device, Now, s, upload, staging, pick))

\* Surface::Download of the whole surface
SchedDownload(slot) ==
    LET s == surfaces[slot]
        rect == Rect(0, s.height, s.width, 0)
        staging == StagingFor(backend, s, rect, "download_buffer")
        download == BufferTextureCopy(0, staging.size, rect, 0)
    IN \E pick \in EphemeralPicks(backend, device, s, rect, "Download") :
          Scheduled("Download", slot, download,
                    DownloadVk(device, Now, s, download, staging, pick))

\* TextureRuntime::ClearTexture of the whole surface or of its last texel
SchedClear(slot) ==
    LET s == surfaces[slot]
    IN \E rect \in RectsOf(s) :
          LET clear == TextureClearValue(0, RectScale(rect, s.res_scale), FillValue)
          IN Scheduled("ClearTexture", slot, clear,
                       ClearTextureVk(Now, s, TextureClear(0, clear.texture_rect), FillValue))

\* TextureRuntime::CopyTextures
SchedCopy(src, dst) ==
    /\ src # dst
    /\ LET copy == TextureCopy(0, 0, <<0, 0>>, <<0, 0>>, <<1, 1>>)
       IN Scheduled("CopyTextures", src, [copy |-> copy, dst |-> dst],
                    CopyTexturesVk(Now, surfaces[src], surfaces[dst], copy))

\* TextureRuntime::BlitTextures
SchedBlit(src, dst) ==
    /\ src # dst
    /\ LET blit == TextureBlit(0, 0, GetScaledRect(surfaces[src]), GetScaledRect(surfaces[dst]))
       IN Scheduled("BlitTextures", src, [blit |-> blit, dst |-> dst],
                    BlitTexturesVk(Now, surfaces[src], surfaces[dst], blit))

\* The rasterizer draws: RenderpassCache::EnterRenderpass
Draw ==
    /\ ~scheduler.renderpass
    /\ scheduler' = [scheduler EXCEPT !.renderpass = TRUE, !.steps = <<>>]
    /\ last' = Done("Draw", 0, <<>>, Now)
    /\ UNCHANGED <<backend, device, surfaces, texture_recycler, images, upload_cmdbuf,
                   render_cmdbuf, gpu, pixels, mapped, process>>
    /\ UNCHANGED components

\* TextureRuntime::Finish
SchedFinish ==
    /\ \E S \in {TextureRuntimeFinish([scheduler EXCEPT !.steps = <<>>])} :
       \E ran \in {[k \in 1..(Len(S.executed) - Len(scheduler.executed)) |->
                      S.recorded[S.executed[Len(scheduler.executed) + k]].unit]} :
       \E G \in {ExecUnits(GpuState(images, gpu.layouts_ok, gpu.settled), ran, 1)} :
          /\ scheduler' = S
          /\ images' = G.images
          /\ gpu' = [layouts_ok |-> G.layouts_ok, settled |-> G.settled]
          /\ upload_cmdbuf' = PendingUnits(S, S.upload)
          /\ render_cmdbuf' = PendingUnits(S, S.render)
          /\ last' = Done("Finish", 0, <<>>,
                          [Runtime(texture_recycler, G.images, PendingUnits(S, S.upload),
                                   PendingUnits(S, S.render))
                              EXCEPT !.units = ran])
    /\ UNCHANGED <<backend, device, surfaces, texture_recycler, pixels, mapped, process>>
    /\ UNCHANGED components

SchedNext ==
    \/ \E slot \in Slots : SchedUpload(slot)
    \/ \E slot \in Slots : SchedDownload(slot)
    \/ \E slot \in Slots : SchedClear(slot)
    \/ \E src, dst \in Slots : SchedCopy(src, dst)
    \/ \E src, dst \in Slots : SchedBlit(src, dst)
    \/ Draw
    \/ SchedFinish

\* The frontend calls Finish again and again (at the latest once a frame)
SpecSched == SchedInit /\ [][SchedNext]_vars /\ WF_vars(SchedFinish)

\* The units of the scheduler by index
Executed == {scheduler.executed[k] : k \in DOMAIN scheduler.executed}
Pending ==
    {scheduler.upload[k] : k \in DOMAIN scheduler.upload} \cup
    {scheduler.render[k] : k \in DOMAIN scheduler.render}

\* C18: Finish leaves the render pass, then submits and waits until every
\* unit recorded before the call has executed, and only then invalidates the
\* download buffer; when it returns nothing recorded before is pending, and
\* the CPU sees what every download wrote.
C18_FinishOrder ==
    (last.op = "Finish" /\ scheduler.steps # <<>>) =>
        /\ [k \in DOMAIN scheduler.steps |-> scheduler.steps[k].step] =
               <<"ExitRenderpass", "scheduler.Finish", "download_buffer.Invalidate">>
        /\ ~scheduler.steps[2].renderpass
        /\ scheduler.steps[3].pending = 0
        /\ ~scheduler.renderpass
        /\ upload_cmdbuf = <<>> /\ render_cmdbuf = <<>> /\ Pending = {}
        /\ \A id \in DOMAIN scheduler.recorded :
              /\ id \in Executed
              /\ scheduler.recorded[id].unit.kind = "Download" => id \in scheduler.visible

\* Finish called in a render pass with a download and another unit pending
C18_Witness ==
    /\ last.op = "Finish" /\ scheduler.steps # <<>>
    /\ scheduler.steps[1].renderpass /\ scheduler.steps[2].pending >= 2
    /\ \E id \in scheduler.visible : id \notin {scheduler.executed[1]}

\* The images the commands of a unit name
ImagesOf(unit) ==
    UNION {(IF "image" \in DOMAIN unit.cmds[k] THEN {unit.cmds[k].image} ELSE {}) \cup
           (IF "src" \in DOMAIN unit.cmds[k] THEN {unit.cmds[k].src, unit.cmds[k].dst} ELSE {}) :
           k \in DOMAIN unit.cmds}

\* C19: the units that the operations on one surface recorded (Upload,
\* Download, Clear, Copy, Blit) execute in the order of the calls: of two
\* executed units on the same image, the one recorded first ran first, and
\* units are recorded in the order of the calls.
C19_ProgramOrder ==
    /\ \A a, b \in DOMAIN scheduler.recorded :
          a < b => scheduler.recorded[a].call <= scheduler.recorded[b].call
    /\ \A i, j \in DOMAIN scheduler.executed :
          LET first == scheduler.recorded[scheduler.executed[i]].unit
              second == scheduler.recorded[scheduler.executed[j]].unit
          IN (/\ i < j
              /\ first.kind # "Allocate" /\ second.kind # "Allocate"
              /\ ImagesOf(first) \cap ImagesOf(second) # {}) =>
                 scheduler.executed[i] < scheduler.executed[j]

\* One Finish has executed a clear and, from a later call, an upload of the
\* same image
C19_Witness ==
    /\ last.op = "Finish" /\ Len(last.units) >= 2
    /\ \E i, j \in DOMAIN scheduler.executed :
          /\ i < j
          /\ scheduler.recorded[scheduler.executed[i]].unit.kind = "ClearTexture"
          /\ scheduler.recorded[scheduler.executed[j]].unit.kind = "Upload"
          /\ scheduler.recorded[scheduler.executed[i]].unit \in {last.units[k] : k \in DOMAIN last.units}
          /\ scheduler.recorded[scheduler.executed[j]].unit \in {last.units[k] : k \in DOMAIN last.units}
          /\ scheduler.recorded[scheduler.executed[i]].call <
                 scheduler.recorded[scheduler.executed[j]].call
          /\ ImagesOf(scheduler.recorded[scheduler.executed[i]].unit) \cap
                 ImagesOf(scheduler.recorded[scheduler.executed[j]].unit) # {}

\* Whether a sequence begins with another
IsPrefix(short, long) ==
    /\ Len(short) <= Len(long)
    /\ \A k \in DOMAIN short : short[k] = long[k]

---------------------------------------------------------------------------
(* The framebuffer cache: Framebuffer::Framebuffer of the OpenGL backend   *)
(* and the clear framebuffers of the Vulkan backend                        *)

\* No surface attached
NullSurface == 0

\* Surface::Handle: the name of the texture, never 0
Handle(s) == s.alloc

\* The hash of the two attachment names, taken to be free of collisions
ComputeStructHash64(attachments) == attachments[1] * (MaxImages + 1) + attachments[2]

\* Pica::Regs as far as the constructor of a Framebuffer reads them
FramebufferRegs == [shadow_rendering : BOOLEAN, has_stencil : BOOLEAN]

\* The framebuffer cache of a new runtime; `made` keeps every Framebuffer
\* that was constructed
NoFramebuffers == [cache |-> {}, created |-> 0, made |-> {}]

\* What one Framebuffer is: its attachments and the host framebuffer it names
FramebufferObject(color, depth_stencil, regs, handle) ==
    [color |-> color, depth_stencil |-> depth_stencil,
     shadow_rendering |-> regs.shadow_rendering, handle |-> handle]

\* A constructor that asks the driver for a framebuffer every time
FramebufferUncached(C, color, depth_stencil, attachments, regs) ==
    IF regs.shadow_rendering /\ color = NullSurface
    THEN [C EXCEPT !.made = @ \cup {FramebufferObject(color, depth_stencil, regs, 0)}]
    ELSE [C EXCEPT !.cache = @ \cup {[hash |-> ComputeStructHash64(attachments),
                                      handle |-> C.created + 1]},
                   !.created = @ + 1,
                   !.made = @ \cup {FramebufferObject(color, depth_stencil, regs,
                                                      C.created + 1)}]

\* Framebuffer::Framebuffer(runtime, color, depth_stencil, regs, surfaces_rect)
Framebuffer(C, color, depth_stencil, attachments, regs) ==
    IF regs.shadow_rendering /\ color = NullSurface
    THEN \* "Framebuffer won't get used": handle keeps its default
         [C EXCEPT !.made = @ \cup {FramebufferObject(color, depth_stencil, regs, 0)}]
    ELSE LET hash == ComputeStructHash64(attachments)
             found == {e \in C.cache : e.hash = hash}
         IN IF found # {}
            THEN [C EXCEPT !.made = @ \cup
                      {FramebufferObject(color, depth_stencil, regs,
                                         (CHOOSE e \in found : TRUE).handle)}]
            ELSE [C EXCEPT !.cache = @ \cup {[hash |-> hash, handle |-> C.created + 1]},
                           !.created = @ + 1,
                           !.made = @ \cup {FramebufferObject(color, depth_stencil, regs,
                                                              C.created + 1)}]

\* The framebuffer of ClearTextureWithRenderpass: clear_framebuffers keeps one
\* per framebuffer view
ClearFramebuffer(C, s, slot) ==
    LET framebuffer_view == s.alloc
        found == {e \in C.cache : e.hash = framebuffer_view}
        color == IF s.type = "Color" THEN slot ELSE NullSurface
        depth_stencil == IF s.type = "Color" THEN NullSurface ELSE slot
        regs == [shadow_rendering |-> FALSE, has_stencil |-> s.type = "DepthStencil"]
    IN IF found # {}
       THEN [C EXCEPT !.made = @ \cup
                 {FramebufferObject(color, depth_stencil, regs,
                                    (CHOOSE e \in found : TRUE).handle)}]
       ELSE [C EXCEPT !.cache = @ \cup {[hash |-> framebuffer_view,
                                         handle |-> C.created + 1]},
                      !.created = @ + 1,
                      !.made = @ \cup {FramebufferObject(color, depth_stencil, regs,
                                                         C.created + 1)}]

\* A colour surface and a depth-stencil surface to attach
FramebufferParams ==
    <<Params("RGBA8", "Texture2D", 2, 2, 1, 1), Params("D24S8", "Texture2D", 2, 2, 1, 1)>>

FramebufferInit ==
    /\ backend \in {"vk", "gl"}
    /\ device = (IF backend = "vk" THEN "full" ELSE "gl")
    /\ texture_recycler = {}
    /\ pixels = <<>>
    /\ mapped = <<>>
    /\ scheduler = <<>>
    /\ process = "running"
    /\ framebuffer_cache = NoFramebuffers
    /\ download_buffer = <<>>
    /\ upload_buffer = <<>>
    /\ pool = <<>>
    /\ threads = <<>>
    /\ apt = <<>>
    /\ memory = <<>>
    /\ LET R1 == SurfaceCtor(backend, device, Runtime({}, <<>>, <<>>, <<>>),
                             FramebufferParams[1], NoEntry)
           R2 == SurfaceCtor(backend, device, R1, FramebufferParams[2], NoEntry)
           G == Submit(GpuState(R2.images, TRUE, TRUE), R2.upload, R2.render)
       IN /\ surfaces = <<Constructed(R1, FramebufferParams[1]),
                          Constructed(R2, FramebufferParams[2])>>
          /\ images = G.images
          /\ gpu = [layouts_ok |-> G.layouts_ok, settled |-> G.settled]
          /\ upload_cmdbuf = <<>>
          /\ render_cmdbuf = <<>>
          /\ last = [op |-> "TextureRuntime", hit |-> FALSE, handle |-> 0]

\* The rasterizer makes the Framebuffer of a draw from the surfaces it found
MakeFramebuffer(color, depth_stencil) ==
    /\ backend = "gl"
    /\ color \in {NullSurface, 1} /\ depth_stencil \in {NullSurface, 2}
    /\ \E regs \in FramebufferRegs :
          LET attachments ==
                  <<IF color # NullSurface THEN Handle(surfaces[color]) ELSE 0,
                    IF depth_stencil # NullSurface THEN Handle(surfaces[depth_stencil]) ELSE 0>>
              C == Framebuffer(framebuffer_cache, color, depth_stencil, attachments, regs)
          IN /\ framebuffer_cache' = C
             /\ last' = [op |-> "Framebuffer",
                         hit |-> C.created = framebuffer_cache.created,
                         handle |-> (CHOOSE f \in C.made :
                                        /\ f.color = color /\ f.depth_stencil = depth_stencil
                                        /\ f.shadow_rendering = regs.shadow_rendering
                                        /\ f \notin framebuffer_cache.made
                                           \/ C.made = framebuffer_cache.made).handle]
    /\ UNCHANGED <<backend, device, surfaces, texture_recycler, images, upload_cmdbuf,
                   render_cmdbuf, gpu, pixels, mapped, scheduler, process,
                   download_buffer, upload_buffer, pool, threads, apt, memory>>

\* TextureRuntime::ClearTexture of a part of a surface: the render pass path
ClearPart(slot) ==
    /\ backend = "vk"
    /\ Len(render_cmdbuf) < MaxPending
    /\ LET s == surfaces[slot]
           clear == TextureClear(0, Rect(0, 1, 1, 0))
           R == ClearTextureVk(Now, s, clear, FillValue)
           C == ClearFramebuffer(framebuffer_cache, s, slot)
       IN /\ Apply(R)
          /\ framebuffer_cache' = C
          /\ last' = [op |-> "ClearTexture", hit |-> C.created = framebuffer_cache.created,
                      handle |-> (CHOOSE e \in C.cache : e.hash = s.alloc).handle]
    /\ UNCHANGED <<backend, device, surfaces, gpu, pixels, mapped, scheduler, process,
                   download_buffer, upload_buffer, pool, threads, apt, memory>>

FramebufferNext ==
    \/ \E color, depth_stencil \in {NullSurface} \cup Slots : MakeFramebuffer(color, depth_stencil)
    \/ \E slot \in Slots : ClearPart(slot)
    \/ Finish

SpecFramebuffer == FramebufferInit /\ [][FramebufferNext]_vars

\* Two Framebuffers over the same attachments
SamePair(f, g) == f.color = g.color /\ f.depth_stencil = g.depth_stencil

\* A Framebuffer that has a host framebuffer: every one but those of shadow
\* rendering without a colour attachment
Usable(f) == ~(f.shadow_rendering /\ f.color = NullSurface)

\* C21 as stated: Framebuffers over the same attachment pair name the same
\* host framebuffer, the second one creating nothing, and Framebuffers over
\* different pairs name different host framebuffers.
C21_FramebufferCacheIdempotent ==
    \A f, g \in framebuffer_cache.made : SamePair(f, g) <=> f.handle = g.handle

\* C21, amended: among the Framebuffers that get a host framebuffer (all but
\* those of shadow rendering without a colour attachment, which get none and
\* keep handle 0) the same attachment pair means the same host framebuffer
\* and different pairs mean different ones; the driver creates one host
\* framebuffer per pair and a hit creates nothing.
C21_FramebufferCache ==
    /\ \A f, g \in framebuffer_cache.made :
          /\ (Usable(f) /\ Usable(g)) => (SamePair(f, g) <=> f.handle = g.handle)
          /\ Usable(f) <=> f.handle # 0
    /\ framebuffer_cache.created =
          Cardinality({<<f.color, f.depth_stencil>> :
                          f \in {g \in framebuffer_cache.made : Usable(g)}})
    /\ Cardinality(framebuffer_cache.cache) = framebuffer_cache.created

\* A second Framebuffer over a pair was a cache hit, next to a Framebuffer
\* over another pair and one that is not used
C21_Witness ==
    /\ last.op = "Framebuffer" /\ last.hit /\ last.handle # 0
    /\ \E f, g, h \in framebuffer_cache.made :
          /\ SamePair(f, g) /\ f # g /\ Usable(f) /\ Usable(g)
          /\ ~SamePair(f, h) /\ Usable(h)
    /\ \E f \in framebuffer_cache.made : ~Usable(f)

---------------------------------------------------------------------------
(* The staging buffers of the OpenGL runtime: FindStaging, and what        *)
(* Upload and Download do with the region they are given                   *)

\* The sizes of the buffers, scaled down to the surfaces of this model
UPLOAD_BUFFER_SIZE == 32
DOWNLOAD_BUFFER_SIZE == 4

\* The regions a caller keeps at a time
MaxHeld == 2

\* A region FindStaging returned: where its span points and how far it got
Region(buffer, storage, buffer_offset, size) ==
    [buffer |-> buffer, storage |-> storage, buffer_offset |-> buffer_offset,
     size |-> size, committed |-> FALSE, filled |-> FALSE]

\* std::vector::resize past the capacity moves the elements to a new block;
\* the new capacity is the implementation's choice
Capacities(capacity, size) ==
    IF size <= capacity THEN {capacity} ELSE {size, Max(size, 2 * capacity)}

\* The buffers after TextureRuntime::TextureRuntime
UploadBufferNew == [capacity |-> UPLOAD_BUFFER_SIZE, offset |-> 0, storage |-> 1, regions |-> {}]
DownloadBufferNew ==
    [size |-> DOWNLOAD_BUFFER_SIZE, capacity |-> DOWNLOAD_BUFFER_SIZE, storage |-> 1,
     regions |-> {}]

\* The two buffers as one value
Buffers(upload, download) == [upload |-> upload, download |-> download, grew |-> FALSE,
                              staging |-> Region("none", 0, 0, 0)]

\* FindStaging with one block of memory behind both buffers
FindStagingOneBlock(B, size, upload, capacity) ==
    IF ~upload
    THEN LET grows == size > B.download.size
             moves == size > B.download.capacity
             storage == IF moves THEN B.download.storage + 1 ELSE B.download.storage
             staging == Region("download_buffer", storage, 0, size)
         IN [B EXCEPT !.download.size = IF grows THEN size ELSE @,
                      !.download.capacity = capacity,
                      !.download.storage = storage,
                      !.upload.storage = IF moves THEN @ + 1 ELSE @,
                      !.download.regions = @ \cup {staging},
                      !.grew = grows, !.staging = staging]
    ELSE LET staging == Region("upload_buffer", B.upload.storage, B.upload.offset, size)
         IN [B EXCEPT !.upload.regions = @ \cup {staging}, !.grew = FALSE,
                      !.staging = staging]

\* TextureRuntime::FindStaging(size, upload) of the OpenGL runtime
FindStagingGL(B, size, upload, capacity) ==
    IF ~upload
    THEN LET grows == size > B.download.size
             moves == size > B.download.capacity
             storage == IF moves THEN B.download.storage + 1 ELSE B.download.storage
             staging == Region("download_buffer", storage, 0, size)
         IN [B EXCEPT !.download.size = IF grows THEN size ELSE @,
                      !.download.capacity = capacity,
                      !.download.storage = storage,
                      !.download.regions = @ \cup {staging},
                      !.grew = grows, !.staging = staging]
    ELSE \* upload_buffer.Map(size, 4)
         LET staging == Region("upload_buffer", B.upload.storage, B.upload.offset, size)
         IN [B EXCEPT !.upload.regions = @ \cup {staging}, !.grew = FALSE,
                      !.staging = staging]

\* OGLStreamBuffer::Unmap(size): the region is the driver's, the next Map
\* begins behind it
Unmap(buffer, staging, size) ==
    [buffer EXCEPT !.offset = @ + size,
                   !.regions = (@ \ {staging}) \cup {[staging EXCEPT !.committed = TRUE]}]

\* Whether the span of a region still points into its buffer
Valid(staging) ==
    IF staging.buffer = "upload_buffer"
    THEN /\ staging.storage = upload_buffer.storage
         /\ staging.buffer_offset + staging.size <= upload_buffer.capacity
    ELSE /\ staging.storage = download_buffer.storage
         /\ staging.buffer_offset + staging.size <= download_buffer.size

\* The regions the callers hold
Held == upload_buffer.regions \cup download_buffer.regions

\* The sizes asked for: a texel and the whole of the surface
StagingRects(s) == {Rect(0, 1, 1, 0), Rect(0, s.height, s.width, 0)}

StagingInit ==
    /\ backend = "gl"
    /\ device \in Devices(backend)
    /\ texture_recycler = {}
    /\ gpu = GpuStart
    /\ pixels = <<>>
    /\ mapped = <<>>
    /\ scheduler = <<>>
    /\ process = "running"
    /\ framebuffer_cache = <<>>
    /\ pool = <<>>
    /\ threads = <<>>
    /\ apt = <<>>
    /\ memory = <<>>
    /\ upload_buffer = UploadBufferNew
    /\ download_buffer = DownloadBufferNew
    /\ LET p == Params("RGBA8", "Texture2D", 2, 2, 1, 1)
           R == SurfaceCtor(backend, device, Runtime({}, <<>>, <<>>, <<>>), p, NoEntry)
       IN /\ surfaces = [slot \in Slots |-> IF slot = 1 THEN Constructed(R, p) ELSE NoSurface]
          /\ images = R.images
          /\ upload_cmdbuf = R.upload
          /\ render_cmdbuf = R.render
          /\ last = [op |-> "SurfaceCtor", grew |-> FALSE, staging |-> Region("none", 0, 0, 0),
                     units |-> <<>>]

\* The rasterizer cache asks for a staging region
FindStaging(upload) ==
    /\ Cardinality(Held) < MaxHeld
    /\ \E rect \in StagingRects(surfaces[1]) :
          LET size == GetWidth(rect) * GetHeight(rect) * GetBytesPerPixel(surfaces[1].pixel_format)
          IN /\ upload => /\ upload_buffer.offset + size <= upload_buffer.capacity
                          /\ \A r \in upload_buffer.regions : r.committed
             /\ \E capacity \in Capacities(download_buffer.capacity,
                                           IF upload THEN 0 ELSE size) :
                   LET B == FindStagingGL(Buffers(upload_buffer, download_buffer), size,
                                          upload, capacity)
                   IN /\ upload_buffer' = B.upload
                      /\ download_buffer' = B.download
                      /\ last' = [op |-> "FindStaging", grew |-> B.grew,
                                  staging |-> B.staging, units |-> <<>>]
    /\ UNCHANGED <<backend, device, surfaces, texture_recycler, images, upload_cmdbuf,
                   render_cmdbuf, gpu, pixels, mapped, scheduler, process,
                   framebuffer_cache, pool, threads, apt, memory>>

\* The rectangle a region was sized for
RectOfSize(s, size) ==
    CHOOSE rect \in StagingRects(s) :
       GetWidth(rect) * GetHeight(rect) * GetBytesPerPixel(s.pixel_format) = size

\* Surface::Upload from a region of the upload buffer
StagedUpload(staging) ==
    /\ staging \in upload_buffer.regions /\ ~staging.committed
    /\ LET s == surfaces[1]
           upload == BufferTextureCopy(0, staging.size, RectOfSize(s, staging.size), 0)
           R == UploadGL(device, Now, s, upload,
                         StagingData("upload_buffer", staging.size, staging.buffer_offset),
                         NoEntry, FALSE)
       IN /\ Apply(R)
          /\ upload_buffer' = IF R.commits = <<>> THEN upload_buffer
                              ELSE Unmap(upload_buffer, staging, R.commits[1].size)
          /\ last' = [op |-> "Upload", grew |-> FALSE, staging |-> staging, units |-> R.units]
    /\ UNCHANGED <<backend, device, surfaces, gpu, pixels, mapped, scheduler, process,
                   framebuffer_cache, pool, download_buffer, threads, apt, memory>>

\* Surface::Download into a region of the download buffer: glReadPixels
\* writes through the span, wherever it points
StagedDownload(staging) ==
    /\ staging \in download_buffer.regions /\ ~staging.filled
    /\ LET s == surfaces[1]
           download == BufferTextureCopy(0, staging.size, RectOfSize(s, staging.size), 0)
           R == DownloadGL(device, Now, s, download,
                           StagingData("download_buffer", staging.size, staging.buffer_offset),
                           NoEntry)
       IN /\ Apply(R)
          /\ download_buffer' =
                [download_buffer EXCEPT !.regions =
                    (@ \ {staging}) \cup {[staging EXCEPT !.filled = TRUE]}]
          /\ process' \in (IF Valid(staging) THEN {process} ELSE {process, "aborted"})
          /\ last' = [op |-> "Download", grew |-> FALSE, staging |-> staging, units |-> R.units]
    /\ UNCHANGED <<backend, device, surfaces, gpu, pixels, mapped, scheduler,
                   framebuffer_cache, pool, upload_buffer, threads, apt, memory>>

\* The caller is done with a region
ReleaseStaging(staging) ==
    /\ staging \in Held
    /\ staging.buffer = "upload_buffer" => staging.committed
    /\ upload_buffer' = [upload_buffer EXCEPT !.regions = @ \ {staging}]
    /\ download_buffer' = [download_buffer EXCEPT !.regions = @ \ {staging}]
    /\ last' = [op |-> "Release", grew |-> FALSE, staging |-> staging, units |-> <<>>]
    /\ UNCHANGED <<backend, device, surfaces, texture_recycler, images, upload_cmdbuf,
                   render_cmdbuf, gpu, pixels, mapped, scheduler, process,
                   framebuffer_cache, pool, threads, apt, memory>>

StagingNext ==
    \/ \E upload \in BOOLEAN : FindStaging(upload)
    \/ \E staging \in Held : StagedUpload(staging)
    \/ \E staging \in Held : StagedDownload(staging)
    \/ \E staging \in Held : ReleaseStaging(staging)

SpecStaging == StagingInit /\ [][StagingNext]_vars

\* C22: a FindStaging that has to grow its buffer leaves every region that
\* was committed before and is still held where it was: the caller still
\* holds it, unchanged, and its span still points into its buffer.
C22_GrowthKeepsCommitted ==
    [][(last'.op = "FindStaging" /\ last'.grew) =>
          \A staging \in Held :
             staging.committed =>
                /\ staging \in upload_buffer'.regions \cup download_buffer'.regions
                /\ Valid(staging)'
                /\ last'.staging.buffer # staging.buffer]_vars

\* A FindStaging grew the download buffer while a committed region was held
C22_Witness ==
    /\ last.op = "FindStaging" /\ last.grew
    /\ download_buffer.storage > 1
    /\ \E staging \in Held : staging.committed /\ staging # last.staging

---------------------------------------------------------------------------
(* Transfers followed texel by texel: uploads, blits and downloads of depth
   surfaces at every resolution scale.  A texel of a depth image is the pair
   <<depth, stencil>> ("none" where the format has no stencil), a word of an
   R32 image the triple <<"r32", depth, stencil>>. *)

MaxScale == 4

UndefinedTexel == <<"undefined", "undefined">>
MixedTexel == <<"mixed", "mixed">>

\* The aspects a glBlitFramebuffer mask selects
MaskAspect(mask) ==
    (IF "COLOR_BUFFER_BIT" \in mask THEN {"Color"} ELSE {}) \cup
    (IF "DEPTH_BUFFER_BIT" \in mask THEN {"Depth"} ELSE {}) \cup
    (IF "STENCIL_BUFFER_BIT" \in mask THEN {"Stencil"} ELSE {})

\* What a transfer of the given aspects reads of a texel
ReadTexel(t, aspect) ==
    IF "Color" \in aspect THEN t
    ELSE <<IF "Depth" \in aspect THEN t[1] ELSE "none",
           IF "Stencil" \in aspect THEN t[2] ELSE "none">>

\* What a transfer of the given aspects leaves in a texel it writes v to
WriteTexel(old, v, aspect) ==
    IF "Color" \in aspect THEN v
    ELSE <<IF "Depth" \in aspect THEN v[1] ELSE old[1],
           IF "Stencil" \in aspect THEN v[2] ELSE old[2]>>

TexelAt(level_px, pos) == IF pos \in DOMAIN level_px THEN level_px[pos] ELSE UndefinedTexel

\* vkCmdCopyBufferToImage of one region: tightly packed rows of bufferRowLength
CopyBufferToImage(level_px, data, copy) ==
    [pos \in DOMAIN level_px |->
        IF InBox(pos, copy.imageOffset[1], copy.imageOffset[2],
                 copy.imageExtent[1], copy.imageExtent[2])
        THEN LET index == (pos[2] - copy.imageOffset[2]) * copy.bufferRowLength +
                          (pos[1] - copy.imageOffset[1]) + 1
             IN WriteTexel(level_px[pos],
                           IF index \in DOMAIN data THEN data[index] ELSE UndefinedTexel,
                           copy.aspectMask)
        ELSE level_px[pos]]

RECURSIVE CopyRegions(_, _, _, _)
CopyRegions(level_px, data, copies, i) ==
    IF i > Len(copies) THEN level_px
    ELSE CopyRegions(CopyBufferToImage(level_px, data, copies[i]), data, copies, i + 1)

\* vkCmdCopyImageToBuffer of one region
CopyImageToBuffer(level_px, copy) ==
    [i \in 1..(copy.imageExtent[1] * copy.imageExtent[2]) |->
        ReadTexel(TexelAt(level_px, <<copy.imageOffset[1] + ((i - 1) % copy.bufferRowLength),
                                      copy.imageOffset[2] + ((i - 1) \div copy.bufferRowLength)>>),
                  copy.aspectMask)]

\* The source texel a nearest-filtered blit samples for texel i of the
\* destination extent: the one under the centre of the destination texel
NearestSource(i, src_size, dst_size) == ((2 * i + 1) * src_size) \div (2 * dst_size)

\* vkCmdBlitImage / glBlitFramebuffer of one region.  A linear filter mixes
\* neighbouring texels wherever the two extents differ.
BlitImage(src_px, dst_px, blit, aspect, filter) ==
    LET s == blit.src_rect
        d == blit.dst_rect
        resized == GetWidth(s) # GetWidth(d) \/ GetHeight(s) # GetHeight(d)
    IN [pos \in DOMAIN dst_px |->
           IF InBox(pos, d.left, d.bottom, GetWidth(d), GetHeight(d))
           THEN LET from == <<s.left + NearestSource(pos[1] - d.left, GetWidth(s), GetWidth(d)),
                              s.bottom + NearestSource(pos[2] - d.bottom, GetHeight(s),
                                                       GetHeight(d))>>
                IN WriteTexel(dst_px[pos],
                              IF filter = "Linear" /\ resized THEN MixedTexel
                              ELSE ReadTexel(TexelAt(src_px, from), aspect),
                              aspect)
           ELSE dst_px[pos]]

\* BlitHelper::BlitD24S8ToR32: every texel of the source rectangle packed into
\* the word at the same place of the destination rectangle
BlitD24S8ToR32(src_px, dst_px, blit) ==
    LET s == blit.src_rect
        d == blit.dst_rect
    IN [pos \in DOMAIN dst_px |->
           IF InBox(pos, d.left, d.bottom, GetWidth(s), GetHeight(s))
           THEN LET t == TexelAt(src_px, <<s.left + pos[1] - d.left, s.bottom + pos[2] - d.bottom>>)
                IN <<"r32", t[1], t[2]>>
           ELSE dst_px[pos]]

\* The box of a whole level
LevelBox(level_px) ==
    LET width == Cardinality({pos \in DOMAIN level_px : pos[2] = 0})
        height == Cardinality({pos \in DOMAIN level_px : pos[1] = 0})
    IN [x |-> 0, y |-> 0, width |-> width, height |-> height]

BoxCopy(box, aspect) ==
    [bufferOffset |-> 0, bufferRowLength |-> box.width, bufferImageHeight |-> box.height,
     aspectMask |-> aspect, mipLevel |-> 0, imageOffset |-> <<box.x, box.y>>,
     imageExtent |-> <<box.width, box.height>>]

\* What a command does to the contents of the images and of the download
\* regions.  M: the image contents and the download regions by offset; data:
\* the bytes of the upload region; staging: the region of the OpenGL call that
\* is running.
ExecTransfer(M, c, data, staging) ==
    CASE c.cmd = "copyBufferToImage" ->
            [M EXCEPT !.pixels[c.image][c.copies[1].mipLevel] =
                          CopyRegions(@, data, c.copies, 1)]
      [] c.cmd = "copyImageToBuffer" ->
            [M EXCEPT !.download[c.copies[1].bufferOffset] =
                          CopyImageToBuffer(M.pixels[c.image][c.copies[1].mipLevel],
                                            c.copies[1])]
      [] c.cmd = "blitImage" ->
            [M EXCEPT !.pixels[c.dst][c.blit.dst_level] =
                          BlitImage(M.pixels[c.src][c.blit.src_level], @, c.blit,
                                    c.aspect, c.filter)]
      [] c.cmd = "dispatch" ->
            [M EXCEPT !.pixels[c.dst][c.blit.dst_level] =
                          BlitD24S8ToR32(M.pixels[c.src][c.blit.src_level], @, c.blit)]
      [] c.cmd = "glTexSubImage2D" ->
            [M EXCEPT !.pixels[c.image][c.level] =
                          CopyBufferToImage(@, data,
                              [BoxCopy(c, {"Color"}) EXCEPT !.bufferRowLength = c.row_length])]
      [] c.cmd = "glBlitFramebuffer" ->
            [M EXCEPT !.pixels[c.dst][c.blit.dst_level] =
                          BlitImage(M.pixels[c.src][c.blit.src_level], @, c.blit,
                                    MaskAspect(c.mask), c.filter)]
      [] c.cmd = "glReadPixels" ->
            [M EXCEPT !.download[staging.buffer_offset] =
                          CopyImageToBuffer(M.pixels[c.image][c.level],
                                            BoxCopy(c, MakeAspect(c.type)))]
      [] c.cmd = "glGetTexImage" ->
            [M EXCEPT !.download[staging.buffer_offset] =
                          CopyImageToBuffer(M.pixels[c.image][c.level],
                                            BoxCopy(LevelBox(M.pixels[c.image][c.level]),
                                                    MakeAspect(c.type)))]
      [] OTHER -> [M EXCEPT !.pixels = ExecPixel(@, c)]

RECURSIVE ExecTransfers(_, _, _, _, _)
ExecTransfers(M, cmds, i, data, staging) ==
    IF i > Len(cmds) THEN M
    ELSE ExecTransfers(ExecTransfer(M, cmds[i], data, staging), cmds, i + 1, data, staging)

\* The contents of the images once an operation has constructed its
\* ephemeral surfaces: a fresh image holds nothing defined
WithFresh(px, imgs) ==
    [i \in DOMAIN imgs |-> IF i \in DOMAIN px THEN px[i] ELSE PixelsOf(imgs[i], UndefinedTexel)]

DepthFormatsScaled == {"D16", "D24S8"}

\* The texels the guest uploads
GuestTexels(pixel_format) ==
    IF pixel_format = "D24S8" THEN {<<"a", "s">>, <<"b", "t">>}
    ELSE {<<"a", "none">>, <<"b", "none">>}

\* What a surface held before: the cache cleared it to one of two values
ClearedTexels(pixel_format) ==
    IF pixel_format = "D24S8" THEN {<<"old", "old">>, <<"new", "new">>}
    ELSE {<<"old", "none">>, <<"new", "none">>}

\* The download region of the transfer on a slot
DownloadOffset(slot, size) == (slot - 1) * size

\* Two surfaces of one size and format, the first at scale S, the second at
\* scale 1, and one native-resolution buffer for one rectangle of them
ScaleInit ==
    /\ Unbuilt
    /\ backend \in {"vk", "gl"}
    /\ device \in Devices(backend)
    /\ texture_recycler = {}
    /\ gpu = GpuStart
    /\ scheduler = <<>>
    /\ process = "running"
    /\ \E pixel_format \in DepthFormatsScaled : \E S \in 1..MaxScale :
          LET p == Params(pixel_format, "Texture2D", 2, 2, S, 1)
              q == Params(pixel_format, "Texture2D", 2, 2, 1, 1)
              R1 == SurfaceCtor(backend, device, Runtime({}, <<>>, <<>>, <<>>), p, NoEntry)
              R2 == SurfaceCtor(backend, device, R1, q, NoEntry)
          IN /\ surfaces = [slot \in Slots |-> IF slot = 1 THEN Constructed(R1, p)
                                               ELSE Constructed(R2, q)]
             /\ images = R2.images
             /\ upload_cmdbuf = <<>>
             /\ render_cmdbuf = <<>>
             /\ \E was \in [Slots -> ClearedTexels(pixel_format)] :
                   pixels = [i \in DOMAIN R2.images |-> PixelsOf(R2.images[i], was[i])]
             /\ \E rect \in RectsOf(q) :
                \E data \in [1..(GetWidth(rect) * GetHeight(rect)) -> GuestTexels(pixel_format)] :
                   LET size == StagingFor(backend, Constructed(R2, q), rect, "download_buffer").size
                   IN mapped = [rect |-> rect, upload |-> data,
                                download |-> [o \in {DownloadOffset(slot, size) : slot \in Slots}
                                                 |-> <<>>],
                                uploaded |-> {}, downloaded |-> {}]
             /\ last = Done("SurfaceCtor", 2, q, R2)

\* Surface::Upload of the buffer to the rectangle; the OpenGL runtime
\* executes at once, and its texture filterer leaves depth surfaces to the blit
ScaleUpload(slot) ==
    /\ slot \notin mapped.uploaded
    /\ LET s == surfaces[slot]
           rect == mapped.rect
           staging == StagingFor(backend, s, rect, "upload_buffer")
           upload == BufferTextureCopy(0, staging.size, rect, 0)
       IN \E pick \in EphemeralPicks(backend, device, s, rect, "Upload") :
          \E R \in {IF backend = "vk" THEN UploadVk(device, Now, s, upload, staging, pick)
                    ELSE UploadGL(device, Now, s, upload, staging, pick, FALSE)} :
             /\ Apply(R)
             /\ last' = Done("Upload", slot, upload, R)
             /\ \E M \in {[pixels |-> WithFresh(pixels, R.images),
                           download |-> mapped.download]} :
                   IF backend = "vk"
                   THEN /\ pixels' = M.pixels
                        /\ mapped' = [mapped EXCEPT !.uploaded = @ \cup {slot}]
                   ELSE \E after \in {ExecTransfers(M, Commands(R.units), 1, mapped.upload,
                                                    staging)} :
                           /\ pixels' = after.pixels
                           /\ mapped' = [mapped EXCEPT !.uploaded = @ \cup {slot}]
    /\ UNCHANGED <<backend, device, surfaces, gpu, scheduler, process>>
    /\ UNCHANGED components

\* Surface::Download of the rectangle into the download region of the slot
ScaleDownload(slot) ==
    /\ slot \in mapped.uploaded
    /\ slot \notin mapped.downloaded
    /\ LET s == surfaces[slot]
           rect == mapped.rect
           size == StagingFor(backend, s, rect, "download_buffer").size
           staging == StagingData("download_buffer", size, DownloadOffset(slot, size))
           download == BufferTextureCopy(0, staging.size, rect, 0)
       IN \E pick \in EphemeralPicks(backend, device, s, rect, "Download") :
          \E R \in {IF backend = "vk" THEN DownloadVk(device, Now, s, download, staging, pick)
                    ELSE DownloadGL(device, Now, s, download, staging, pick)} :
             /\ Apply(R)
             /\ last' = Done("Download", slot, download, R)
             /\ \E M \in {[pixels |-> WithFresh(pixels, R.images),
                           download |-> mapped.download]} :
                   IF backend = "vk"
                   THEN /\ pixels' = M.pixels
                        /\ mapped' = [mapped EXCEPT !.downloaded = @ \cup {slot}]
                   ELSE \E after \in {ExecTransfers(M, Commands(R.units), 1, mapped.upload,
                                                    staging)} :
                           /\ pixels' = after.pixels
                           /\ mapped' = [mapped EXCEPT !.downloaded = @ \cup {slot},
                                                       !.download = after.download]
    /\ UNCHANGED <<backend, device, surfaces, gpu, scheduler, process>>
    /\ UNCHANGED components

\* TextureRuntime::Finish, with what the executed commands do to the images
\* and to the download regions
ScaleFinish ==
    /\ backend = "vk"
    /\ upload_cmdbuf \o render_cmdbuf # <<>>
    /\ LET G == Submit(GpuState(images, gpu.layouts_ok, gpu.settled),
                       upload_cmdbuf, render_cmdbuf)
       IN /\ images' = G.images
          /\ gpu' = [layouts_ok |-> G.layouts_ok, settled |-> G.settled]
    /\ \E after \in {ExecTransfers([pixels |-> pixels, download |-> mapped.download],
                                   Commands(upload_cmdbuf \o render_cmdbuf), 1,
                                   mapped.upload, StagingData("none", 0, 0))} :
          /\ pixels' = after.pixels
          /\ mapped' = [mapped EXCEPT !.download = after.download]
    /\ upload_cmdbuf' = <<>>
    /\ render_cmdbuf' = <<>>
    /\ last' = Done("Finish", 0, <<>>,
                    [Runtime(texture_recycler, images', <<>>, <<>>) EXCEPT
                        !.units = upload_cmdbuf \o render_cmdbuf])
    /\ UNCHANGED <<backend, device, surfaces, texture_recycler, scheduler, process>>
    /\ UNCHANGED components

ScaleNext ==
    \/ \E slot \in Slots : ScaleUpload(slot)
    \/ \E slot \in Slots : ScaleDownload(slot)
    \/ ScaleFinish

SpecScale == ScaleInit /\ [][ScaleNext]_vars

\* Both transfers are over: the buffer was uploaded to and downloaded from
\* the rectangle of both surfaces, and every recorded command has executed
RoundTripsDone ==
    /\ mapped.downloaded = Slots
    /\ upload_cmdbuf = <<>> /\ render_cmdbuf = <<>>

\* The bytes the download of a slot returned
Downloaded(slot) ==
    mapped.download[DownloadOffset(slot,
        StagingFor(backend, surfaces[slot], mapped.rect, "download_buffer").size)]

\* C23: for the depth formats and every scale S in 1..4, uploading a
\* native-resolution buffer to a rectangle of a surface of scale S and then
\* downloading the rectangle returns the bytes the same upload and download
\* return on a surface of scale 1.
C23_ScaleRoundTrip == RoundTripsDone => Downloaded(1) = Downloaded(2)

\* Whether Surface::Upload takes the upload of a surface at all
UploadTaken(s) ==
    ~(backend = "vk" /\ s.type = "DepthStencil" /\ ~GetTraits(device, s.pixel_format).blit_support)

\* Wherever the upload is taken, the round trip at scale S returns what it
\* returns at scale 1
ScaledTransferLossless ==
    (RoundTripsDone /\ UploadTaken(surfaces[1])) => Downloaded(1) = Downloaded(2)

\* A round trip at a scale above 1 of a buffer of two different texels
\* returned the bytes of the round trip at scale 1, and they are not what the
\* surfaces held before
ScaledTransferWitness ==
    /\ RoundTripsDone
    /\ surfaces[1].res_scale > 1
    /\ Len(mapped.upload) > 1 /\ mapped.upload[1] # mapped.upload[2]
    /\ Downloaded(1) = Downloaded(2)
    /\ \A i \in DOMAIN Downloaded(1) : Downloaded(1)[i][1] \in {"a", "b", "r32"}

---------------------------------------------------------------------------
(* TextureRuntime::FormatConvert of the Vulkan runtime.  A pixel is the
   sequence of its bytes; the converters of Pica::Texture work pixel by pixel. *)

ConvertFormats == {"RGBA8", "RGB8", "RGB5A1", "RGB565", "RGBA4", "D16", "D24", "D24S8"}

\* The format traits of the device that NeedsConvertion reads
ConvertTraits == [blit_support : BOOLEAN, attachment_support : BOOLEAN]

\* Bytes per pixel of the linear guest data of a format
GuestBytes(pixel_format) ==
    CASE pixel_format \in {"RGBA8", "D24S8"} -> 4
      [] pixel_format \in {"RGB8", "D24"} -> 3
      [] OTHER -> 2

\* The pixels a conversion is given (source) and the bytes its destination
\* span holds before the call
SourcePixels(n) == {[i \in 1..n |-> 16 * i + i], [i \in 1..n |-> 255 - 16 * i]}
Unwritten(n) == [i \in 1..n |-> -1]

\* TextureRuntime::NeedsConvertion
NeedsConvertion(traits, format) ==
    GetFormatType(format) = "Color" /\
    (format = "RGBA8" \/ ~traits.blit_support \/ ~traits.attachment_support)

\* Pica::Texture::ConvertABGRToRGBA: the four bytes of the pixel reversed
ConvertABGRToRGBA(px) == <<px[4], px[3], px[2], px[1]>>
\* Pica::Texture::ConvertBGRToRGBA: three bytes reversed, alpha opaque
ConvertBGRToRGBA(px) == <<px[3], px[2], px[1], 255>>
\* Pica::Texture::ConvertRGBAToBGR: alpha dropped, three bytes reversed
ConvertRGBAToBGR(px) == <<px[3], px[2], px[1]>>
\* Pica::Texture::ConvertRGBA8ToRGBA4: the high nibble of each channel
ConvertRGBA8ToRGBA4(px) ==
    <<(px[3] \div 16) * 16 + (px[4] \div 16), (px[1] \div 16) * 16 + (px[2] \div 16)>>

\* What a call of FormatConvert leaves behind
Converted(dest, ret, logged, proc) ==
    [dest |-> dest, ret |-> ret, logged |-> logged, process |-> proc]

\* TextureRuntime::FormatConvert
FormatConvert(traits, pixel_format, upload, source, dest) ==
    IF ~NeedsConvertion(traits, pixel_format)
    THEN Converted([i \in DOMAIN dest |-> IF i \in DOMAIN source THEN source[i] ELSE dest[i]],
                   "void", <<>>, "running")
    ELSE IF upload /\ pixel_format = "RGBA8"
    THEN Converted(ConvertABGRToRGBA(source), "void", <<>>, "running")
    ELSE IF upload /\ pixel_format = "RGB8"
    THEN Converted(ConvertBGRToRGBA(source), "void", <<>>, "running")
    ELSE IF ~upload /\ pixel_format = "RGBA8"
    THEN Converted(ConvertABGRToRGBA(source), "void", <<>>, "running")
    ELSE IF ~upload /\ pixel_format = "RGBA4"
    THEN Converted(ConvertRGBA8ToRGBA4(source), "void", <<>>, "running")
    ELSE IF ~upload /\ pixel_format = "RGB8"
    THEN Converted(ConvertRGBAToBGR(source), "void", <<>>, "running")
    ELSE Converted(dest, "void",
                   <<[level |-> "Warning", message |-> "Missing linear format convertion"]>>,
                   "running")

\* Bytes per pixel on the host side of a conversion: a format that needs
\* conversion lives in an RGBA8 image
HostBytes(traits, pixel_format) ==
    IF NeedsConvertion(traits, pixel_format) THEN 4 ELSE GuestBytes(pixel_format)

ConvertInit ==
    /\ Unbuilt
    /\ backend = "vk"
    /\ device = "full"
    /\ surfaces = [slot \in Slots |-> NoSurface]
    /\ texture_recycler = {}
    /\ images = <<>>
    /\ upload_cmdbuf = <<>>
    /\ render_cmdbuf = <<>>
    /\ gpu = GpuStart
    /\ pixels = <<>>
    /\ scheduler = <<>>
    /\ process = "running"
    /\ \E pixel_format \in ConvertFormats : \E traits \in ConvertTraits :
          mapped = [pixel_format |-> pixel_format, traits |-> traits]
    /\ last = [op |-> "Init"]

\* One call of FormatConvert by the rasterizer cache, for an upload (guest
\* bytes to host bytes) or a download (host bytes to guest bytes)
Convert(upload) ==
    /\ process = "running"
    /\ LET format == mapped.pixel_format
           guest == GuestBytes(format)
           host == HostBytes(mapped.traits, format)
       IN \E source \in SourcePixels(IF upload THEN guest ELSE host) :
          \E C \in {FormatConvert(mapped.traits, format, upload, source,
                                  Unwritten(IF upload THEN host ELSE guest))} :
             /\ last' = [op |-> "FormatConvert", upload |-> upload, source |-> source,
                         dest |-> C.dest, ret |-> C.ret, logged |-> C.logged]
             /\ process' = C.process
    /\ UNCHANGED <<backend, device, surfaces, texture_recycler, images, upload_cmdbuf,
                   render_cmdbuf, gpu, pixels, mapped, scheduler>>
    /\ UNCHANGED components

ConvertNext == \E upload \in BOOLEAN : Convert(upload)

SpecConvert == ConvertInit /\ [][ConvertNext]_vars

\* The formats FormatConvert has a conversion case for, by direction
HasConversion(pixel_format, upload) ==
    IF upload THEN pixel_format \in {"RGBA8", "RGB8"}
    ELSE pixel_format \in {"RGBA8", "RGBA4", "RGB8"}

\* C24: a FormatConvert for a format that needs conversion and has no
\* conversion case for the direction is logged critically and ends the
\* process; it never returns normally with the destination span unwritten.
C24_MissingConversionFatal ==
    (/\ last.op = "FormatConvert"
     /\ NeedsConvertion(mapped.traits, mapped.pixel_format)
     /\ ~HasConversion(mapped.pixel_format, last.upload))
    => /\ process = "aborted"
       /\ \E i \in DOMAIN last.logged : last.logged[i].level = "Critical"

---------------------------------------------------------------------------
(* Failures inside Surface::Upload *)

\* Whether a command writes pixel data into the image
WritesImage(c, image) ==
    \/ IsDirectWrite(c) /\ c.image = image
    \/ IsBlit(c) /\ c.dst = image
    \/ c.cmd = "filter" /\ c.dst = image

\* C25: every failure inside Surface::Upload is asserted or aborts; no Upload
\* returns normally without having written (recorded the write of) the
\* caller's pixel data to the image of the surface.
C25_UploadNeverDrops ==
    last.op = "Upload" =>
        \/ process = "aborted"
        \/ \E i \in DOMAIN Commands(last.units) :
              WritesImage(Commands(last.units)[i], surfaces[last.slot].alloc)

---------------------------------------------------------------------------
(* Common::ObjectPool (object_pool.h).  The pool is followed by the number of
   its vacant slots, the sizes of its memory blocks and the number of objects
   its users hold. *)

MaxGrowths == 3

\* ObjectPool::ObjectPool
NewPool == [vacants |-> 0, memory |-> <<>>, live |-> 0]

\* An unsigned shift: 64u << n
ShiftLeft(value, n) == value * 2 ^ n

\* What a call on the pool leaves behind
PoolCall(P, ret, grew, num_objects) ==
    [pool |-> P, ret |-> ret, grew |-> grew, num_objects |-> num_objects]

\* ObjectPool::Allocate.  aligned: whether memalign_alloc returns a block
PoolAllocate(P, aligned) ==
    IF P.vacants = 0
    THEN LET num_objects == ShiftLeft(64, Len(P.memory))
         IN IF ~aligned THEN PoolCall(P, "nullptr", FALSE, 0)
            ELSE PoolCall([vacants |-> num_objects - 1,
                          memory |-> Append(P.memory, num_objects),
                          live |-> P.live + 1], "ptr", TRUE, num_objects)
    ELSE PoolCall([P EXCEPT !.vacants = @ - 1, !.live = @ + 1], "ptr", FALSE, 0)

\* ObjectPool::Free
PoolFree(P) == PoolCall([P EXCEPT !.vacants = @ + 1, !.live = @ - 1], "void", FALSE, 0)

\* ObjectPool::Clear
PoolClear(P) == PoolCall([P EXCEPT !.vacants = 0, !.memory = <<>>], "void", FALSE, 0)

PoolInit ==
    /\ backend = "vk"
    /\ device = "full"
    /\ surfaces = [slot \in Slots |-> NoSurface]
    /\ texture_recycler = {}
    /\ images = <<>>
    /\ upload_cmdbuf = <<>>
    /\ render_cmdbuf = <<>>
    /\ gpu = GpuStart
    /\ pixels = <<>>
    /\ mapped = <<>>
    /\ scheduler = <<>>
    /\ process = "running"
    /\ framebuffer_cache = <<>>
    /\ download_buffer = <<>>
    /\ upload_buffer = <<>>
    /\ pool = NewPool
    /\ threads = <<>>
    /\ apt = <<>>
    /\ memory = <<>>
    /\ last = [op |-> "ObjectPool", ret |-> "void", grew |-> FALSE, num_objects |-> 0,
               vacants |-> 0]

PoolDone(op, C) ==
    /\ pool' = C.pool
    /\ last' = [op |-> op, ret |-> C.ret, grew |-> C.grew, num_objects |-> C.num_objects,
                vacants |-> pool.vacants]
    /\ UNCHANGED <<backend, device, surfaces, texture_recycler, images, upload_cmdbuf,
                   render_cmdbuf, gpu, pixels, mapped, scheduler, process,
                   framebuffer_cache, download_buffer, upload_buffer, threads, apt, memory>>

\* A user of the pool allocates one object
Allocate ==
    /\ pool.vacants = 0 => Len(pool.memory) < MaxGrowths
    /\ \E aligned \in BOOLEAN : PoolDone("Allocate", PoolAllocate(pool, aligned))

\* A user frees one of the objects it holds
Free ==
    /\ pool.live > 0
    /\ PoolDone("Free", PoolFree(pool))

\* The owner clears the pool once every object was given back
Clear ==
    /\ pool.live = 0
    /\ PoolDone("Clear", PoolClear(pool))

PoolNext == Allocate \/ Free \/ Clear

SpecPool == PoolInit /\ [][PoolNext]_vars

\* C26: the pool grows only when it has no vacant slot, and its n-th growth
\* allocates a batch of 64 * n objects: 64, then 128, and so on.
C26_PoolGrowth ==
    (last.op = "Allocate" /\ last.grew) =>
        /\ last.vacants = 0
        /\ last.num_objects = 64 * Len(pool.memory)

\* The pool grows only when it has no vacant slot, and each growth doubles
\* the batch: the n-th block holds 64 * 2^(n-1) objects
PoolGrowsGeometric ==
    /\ (last.op = "Allocate" /\ last.grew) =>
          /\ last.vacants = 0
          /\ last.num_objects = 64 * 2 ^ (Len(pool.memory) - 1)
    /\ (last.op = "Allocate" /\ last.vacants > 0) => ~last.grew
    /\ \A n \in DOMAIN pool.memory : pool.memory[n] = 64 * 2 ^ (n - 1)

\* The third growth of a pool
PoolGrowthWitness == last.op = "Allocate" /\ last.grew /\ Len(pool.memory) = 3

---------------------------------------------------------------------------
(* The upload staging buffer of the Vulkan runtime and the closures that
   work on its regions.  A region is followed from FindStaging to Finish:
   its bytes, and whether it was committed and flushed.  The scheduler is a
   queue of recorded closures that a background worker executes in order. *)

MaxStaged == 2

\* StreamBuffer::Map(size, 4): the region at the aligned cursor
StreamMap(buffer, size) ==
    [offset |-> ((buffer.cursor + 3) \div 4) * 4, size |-> size,
     bytes |-> [i \in 1..size |-> 0], committed |-> FALSE, flushed |-> FALSE]

\* StreamBuffer::Commit(size): the mapped region is handed to the GPU and the
\* cursor moves past it
StreamCommit(buffer, r) ==
    [buffer EXCEPT !.regions[r].committed = TRUE,
                   !.cursor = buffer.regions[r].offset + buffer.regions[r].size]

\* StreamBuffer::Flush: what was committed is made visible to the device
StreamFlush(buffer) ==
    [buffer EXCEPT !.regions = [r \in DOMAIN @ |->
                                   [@[r] EXCEPT !.flushed = @ \/ buffer.regions[r].committed]]]

\* The writes of the CPU among the accesses of a closure
Writes(log) == SelectSeq(log, LAMBDA t : t.mode = "write")

\* The upload closure of Surface::Upload runs: for an image with a stencil
\* aspect it first unpacks the staging region in place
RunClosure(buffer, closure) ==
    IF "Stencil" \in closure.aspect
    THEN LET region == buffer.regions[closure.region]
             result == UnpackDepthStencil([size |-> region.size, mapped |-> region.bytes],
                                          closure.format)
         IN [buffer |-> [buffer EXCEPT !.regions[closure.region].bytes = result.mapped],
             writes |-> Writes(result.log), committed |-> region.committed,
             flushed |-> region.flushed, process |-> result.process]
    ELSE [buffer |-> buffer, writes |-> <<>>, committed |-> buffer.regions[closure.region].committed,
          flushed |-> buffer.regions[closure.region].flushed, process |-> "running"]

\* The closure run between its recording and the Commit of its region
RecordThenCommitAfterRun(buffer, r, closure) ==
    LET ran == RunClosure(buffer, closure)
    IN [ran EXCEPT !.buffer = StreamCommit(ran.buffer, r)]

\* Surface::Upload at scale 1: scheduler.Record of the closure, then
\* upload_buffer.Commit of the region
RecordThenCommit(buffer, r, closure) ==
    [buffer |-> StreamCommit(buffer, r), writes |-> <<>>, committed |-> FALSE,
     flushed |-> FALSE, process |-> "running"]

StagedParams == <<Params("D24S8", "Texture2D", 1, 1, 1, 1), Params("RGBA8", "Texture2D", 1, 1, 1, 1)>>

CommitInit ==
    /\ backend = "vk"
    /\ device = "full"
    /\ texture_recycler = {}
    /\ pixels = <<>>
    /\ mapped = <<>>
    /\ process = "running"
    /\ framebuffer_cache = <<>>
    /\ download_buffer = <<>>
    /\ pool = <<>>
    /\ threads = <<>>
    /\ apt = <<>>
    /\ memory = <<>>
    /\ upload_buffer = [regions |-> <<>>, cursor |-> 0]
    /\ scheduler = <<>>
    /\ LET R1 == SurfaceCtor(backend, device, Runtime({}, <<>>, <<>>, <<>>), StagedParams[1],
                             NoEntry)
           R2 == SurfaceCtor(backend, device, R1, StagedParams[2], NoEntry)
           G == Submit(GpuState(R2.images, TRUE, TRUE), R2.upload, R2.render)
       IN /\ surfaces = <<Constructed(R1, StagedParams[1]), Constructed(R2, StagedParams[2])>>
          /\ images = G.images
          /\ gpu = [layouts_ok |-> G.layouts_ok, settled |-> G.settled]
          /\ upload_cmdbuf = <<>>
          /\ render_cmdbuf = <<>>
    /\ last = [op |-> "Init", region |-> 0, writes |-> <<>>, committed |-> FALSE,
               flushed |-> FALSE]

\* The rasterizer cache uploads a surface: FindStaging, the guest bytes
\* written into the region, then Surface::Upload.  The worker may run the
\* closure as soon as it is recorded when nothing is queued before it.
CommitUpload(slot) ==
    /\ process = "running"
    /\ Len(upload_buffer.regions) < MaxStaged
    /\ LET s == surfaces[slot]
           rect == Rect(0, s.height, s.width, 0)
           size == StagingFor(backend, s, rect, "upload_buffer").size
           mapping == StreamMap(upload_buffer, size)
           r == Len(upload_buffer.regions) + 1
           staging == StagingData("upload_buffer", size, mapping.offset)
           upload == BufferTextureCopy(0, size, rect, 0)
           R == UploadVk(device, Now, s, upload, staging, NoEntry)
           closure == [region |-> r, format |-> s.format, aspect |-> s.aspect,
                       unit |-> R.units[1]]
       IN \E bytes \in [1..size -> ByteSamples] :
          \E early \in (IF scheduler = <<>> THEN BOOLEAN ELSE {FALSE}) :
          \E filled \in {[upload_buffer EXCEPT
                             !.regions = Append(@, [mapping EXCEPT !.bytes = bytes])]} :
          \E C \in {IF early THEN RecordThenCommitAfterRun(filled, r, closure)
                    ELSE RecordThenCommit(filled, r, closure)} :
             /\ upload_buffer' = C.buffer
             /\ scheduler' = IF early THEN scheduler ELSE Append(scheduler, closure)
             /\ render_cmdbuf' = IF early THEN Append(render_cmdbuf, closure.unit)
                                 ELSE render_cmdbuf
             /\ process' = C.process
             /\ last' = [op |-> "Upload", region |-> r, writes |-> C.writes,
                         committed |-> C.committed, flushed |-> C.flushed]
    /\ UNCHANGED <<backend, device, surfaces, texture_recycler, images, upload_cmdbuf, gpu,
                   pixels, mapped, framebuffer_cache, download_buffer, pool, threads, apt, memory>>

\* The worker of the scheduler runs the closure at the head of its queue
WorkerRun ==
    /\ process = "running"
    /\ scheduler # <<>>
    /\ \E C \in {RunClosure(upload_buffer, Head(scheduler))} :
          /\ upload_buffer' = C.buffer
          /\ process' = C.process
          /\ last' = [op |-> "Execute", region |-> Head(scheduler).region, writes |-> C.writes,
                      committed |-> C.committed, flushed |-> C.flushed]
    /\ render_cmdbuf' = Append(render_cmdbuf, Head(scheduler).unit)
    /\ scheduler' = Tail(scheduler)
    /\ UNCHANGED <<backend, device, surfaces, texture_recycler, images, upload_cmdbuf, gpu,
                   pixels, mapped, framebuffer_cache, download_buffer, pool, threads, apt, memory>>

\* TextureRuntime::FlushBuffers
FlushBuffers ==
    /\ process = "running"
    /\ \E r \in DOMAIN upload_buffer.regions :
          upload_buffer.regions[r].committed /\ ~upload_buffer.regions[r].flushed
    /\ upload_buffer' = StreamFlush(upload_buffer)
    /\ last' = [op |-> "FlushBuffers", region |-> 0, writes |-> <<>>, committed |-> FALSE,
                flushed |-> FALSE]
    /\ UNCHANGED <<backend, device, surfaces, texture_recycler, images, upload_cmdbuf,
                   render_cmdbuf, gpu, pixels, mapped, scheduler, process,
                   framebuffer_cache, download_buffer, pool, threads, apt, memory>>

\* TextureRuntime::Finish returns once the worker has run every closure and
\* the submission has executed; the buffer is free again from its start
CommitFinish ==
    /\ process = "running"
    /\ scheduler = <<>>
    /\ render_cmdbuf # <<>>
    /\ LET G == Submit(GpuState(images, gpu.layouts_ok, gpu.settled),
                       upload_cmdbuf, render_cmdbuf)
       IN /\ images' = G.images
          /\ gpu' = [layouts_ok |-> G.layouts_ok, settled |-> G.settled]
    /\ upload_cmdbuf' = <<>>
    /\ render_cmdbuf' = <<>>
    /\ upload_buffer' = [regions |-> <<>>, cursor |-> 0]
    /\ last' = [op |-> "Finish", region |-> 0, writes |-> <<>>, committed |-> FALSE,
                flushed |-> FALSE]
    /\ UNCHANGED <<backend, device, surfaces, texture_recycler, pixels, mapped, scheduler,
                   process, framebuffer_cache, download_buffer, pool, threads, apt, memory>>

CommitNext ==
    \/ \E slot \in Slots : CommitUpload(slot)
    \/ WorkerRun
    \/ FlushBuffers
    \/ CommitFinish

SpecCommit == CommitInit /\ [][CommitNext]_vars

\* C27: no CPU write to an upload staging region happens after the region
\* was committed: the in-place UnpackDepthStencil of the closure of a scale-1
\* depth-stencil Upload is over before upload_buffer.Commit of the region and
\* before the bytes are flushed.
C27_NoWriteAfterCommit ==
    last.writes # <<>> => (~last.committed /\ ~last.flushed)

\* The closure of a depth-stencil upload unpacked its region before the Commit
UnpackBeforeCommitWitness ==
    /\ last.op = "Upload" /\ last.writes # <<>> /\ ~last.committed
    /\ upload_buffer.regions[last.region].committed

---------------------------------------------------------------------------
(* Conservation of the image allocations *)

LiveSlots == {slot \in Slots : Live(slot)}

\* C28: while a TextureRuntime (Vulkan or OpenGL) lives, the number of images the driver created is
\* the number of allocations owned by live Surfaces plus the number of entries
\* of the recycler, and every image is owned or pooled: no sequence of
\* constructions, destructions and operations leaks, frees or duplicates an
\* allocation.  A Surface of the Invalid pixel format owns no allocation, and
\* its construction and destruction neither create an image nor touch the
\* recycler.
C28_Conservation ==
    /\ [](backend \in {"vk", "gl"} =>
             /\ Len(images) = Cardinality(LiveSlots) + Cardinality(texture_recycler)
             /\ Owned \cup Pooled = DOMAIN images
             /\ \A slot \in Slots :
                   (surfaces[slot] # NoSurface /\ surfaces[slot].pixel_format = "Invalid") =>
                       surfaces[slot].alloc = NoAlloc)
    /\ [][(backend \in {"vk", "gl"} /\ last'.op \in {"SurfaceCtor", "SurfaceDtor"} /\
           last'.input.pixel_format = "Invalid") =>
             /\ images' = images
             /\ texture_recycler' = texture_recycler
             /\ last'.created = 0 /\ last'.alloc = NoAlloc]_vars

\* Two images were created, one is owned by a live Surface and one is pooled,
\* and a Surface of the Invalid format was just constructed next to them
C28_Witness ==
    /\ backend \in {"vk", "gl"}
    /\ last.op = "SurfaceCtor" /\ last.input.pixel_format = "Invalid"
    /\ Len(images) = 2
    /\ Cardinality(LiveSlots) = 1
    /\ Cardinality(texture_recycler) = 1

---------------------------------------------------------------------------
(* Reuse of the ephemeral images of scaled transfers.  The transfers done so
   far are remembered by pixel format, type, direction-independent, and size
   of the rectangle. *)

MaxKept == 3

\* What a scaled transfer is remembered by: format and type of the surface
\* and the size of the rectangle
TransferKey(s, rect) ==
    [pixel_format |-> s.pixel_format, type |-> s.type, texture_type |-> s.texture_type,
     width |-> GetWidth(rect), height |-> GetHeight(rect)]

\* The scaled surfaces the transfers work on
ScaledParams ==
    {p \in ParamSet : p.res_scale # 1}

ReuseInit ==
    /\ Unbuilt
    /\ backend \in {"vk", "gl"}
    /\ device \in Devices(backend)
    /\ texture_recycler = {}
    /\ gpu = GpuStart
    /\ pixels = <<>>
    /\ scheduler = <<>>
    /\ process = "running"
    /\ mapped = {}
    /\ \E p \in ScaledParams :
          LET R == SurfaceCtor(backend, device, Runtime({}, <<>>, <<>>, <<>>), p, NoEntry)
          IN /\ surfaces = [slot \in Slots |-> IF slot = 1 THEN Constructed(R, p) ELSE NoSurface]
             /\ images = R.images
             /\ upload_cmdbuf = R.upload
             /\ render_cmdbuf = R.render
             /\ last = Done("SurfaceCtor", 1, p, R)

\* Surface::Upload or Surface::Download of a rectangle of a scaled surface
ScaledTransfer(slot, op) ==
    /\ Live(slot)
    /\ surfaces[slot].res_scale # 1
    /\ Len(render_cmdbuf) < MaxPending
    /\ LET s == surfaces[slot]
       IN \E rect \in RectsOf(s) :
          \E pick \in EphemeralPicks(backend, device, s, rect, op) :
             /\ pick # NoEntry \/ Len(images) < MaxKept
             /\ LET staging == StagingFor(backend, s, rect,
                                          IF op = "Upload" THEN "upload_buffer"
                                          ELSE "download_buffer")
                    transfer == BufferTextureCopy(0, staging.size, rect, 0)
                    R == CASE backend = "vk" /\ op = "Upload" ->
                                 UploadVk(device, Now, s, transfer, staging, pick)
                           [] backend = "vk" /\ op = "Download" ->
                                 DownloadVk(device, Now, s, transfer, staging, pick)
                           [] backend = "gl" /\ op = "Upload" ->
                                 UploadGL(device, Now, s, transfer, staging, pick, FALSE)
                           [] OTHER -> DownloadGL(device, Now, s, transfer, staging, pick)
                IN /\ Apply(R)
                   /\ last' = Done(op, slot, transfer, R)
                   /\ mapped' = mapped \cup {TransferKey(s, rect)}
    /\ UNCHANGED <<backend, device, surfaces, gpu, pixels, scheduler, process>>
    /\ UNCHANGED components

ReuseNext ==
    \/ \E slot \in Slots : \E op \in {"Upload", "Download"} : ScaledTransfer(slot, op)
    \/ \E slot \in Slots : CreateSurface(slot)
    \/ \E slot \in Slots : DestroySurface(slot)
    \/ Finish

SpecReuse == ReuseInit /\ [][ReuseNext]_vars

\* The step is a scaled transfer
IsScaledTransfer ==
    /\ last'.op \in {"Upload", "Download"}
    /\ last' # last
    /\ surfaces[last'.slot] # NoSurface
    /\ surfaces[last'.slot].res_scale # 1

\* C29 as stated: after the first scaled Upload or Download of a w x h
\* rectangle on a surface of a format and type, every later scaled Upload or
\* Download of a rectangle of that size on a surface of that format and type
\* creates no image, and the recycler has as many entries after it as before.
C29_LaterTransfersReuse ==
    [][(IsScaledTransfer /\
        TransferKey(surfaces[last'.slot], last'.input.texture_rect) \in mapped) =>
          /\ last'.created = 0
          /\ Cardinality(texture_recycler') = Cardinality(texture_recycler)]_vars

\* C29 amended: a scaled Upload or Download whose ephemeral surface finds an
\* entry of its tag in the recycler creates no image, takes its image from
\* the recycler and leaves the recycler with as many entries as before; and
\* every scaled transfer that constructs an ephemeral surface leaves an entry
\* of that tag in the recycler, whether it created the image or not.
C29_PooledTransfersReuse ==
    [][IsScaledTransfer =>
          LET s == surfaces[last'.slot]
              op == last'.op
              key == EphemeralKey(backend, device, s, last'.input.texture_rect, op)
          IN /\ (last'.ephem # <<>> /\ Find(texture_recycler, key) # {}) =>
                   /\ last'.created = 0
                   /\ \A i \in DOMAIN last'.ephem : last'.ephem[i].hit
                   /\ Cardinality(texture_recycler') = Cardinality(texture_recycler)
             /\ last'.ephem # <<>> => Find(texture_recycler', key) # {}
             /\ last'.created <= 1]_vars

\* A scaled transfer of a rectangle size that was transferred before took its
\* ephemeral image from the recycler
C29_Witness ==
    /\ last.op \in {"Upload", "Download"}
    /\ surfaces[last.slot] # NoSurface /\ surfaces[last.slot].res_scale # 1
    /\ TransferKey(surfaces[last.slot], last.input.texture_rect) \in mapped
    /\ last.ephem # <<>> /\ last.ephem[1].hit /\ last.created = 0
    /\ texture_recycler # {}

---------------------------------------------------------------------------
(* Finalization of the staging region of a transfer *)

\* Whether the operation performed its transfer: it copied between the
\* staging buffer and an image
PerformsTransfer(units) ==
    \E i \in DOMAIN Commands(units) :
        IsDirectWrite(Commands(units)[i]) \/ IsReadback(Commands(units)[i])

\* C30: every Upload and every Download that performs its transfer finalizes
\* the staging region it was given exactly once, with the size of the region
\* (Commit of the upload or download buffer on Vulkan, Unmap on OpenGL
\* uploads; an OpenGL download has nothing to finalize), whichever path it
\* takes; the nested calls on ephemeral surfaces add no second finalization.
C30_FinalizedOnce ==
    (last.op \in {"Upload", "Download"} /\ PerformsTransfer(last.units)) =>
        IF backend = "gl" /\ last.op = "Download"
        THEN last.commits = <<>>
        ELSE last.commits = <<[buffer |-> IF last.op = "Upload" THEN "upload" ELSE "download",
                               size |-> last.input.buffer_size]>>

\* A Vulkan download of a scaled depth-stencil surface, which goes through
\* the R32 surface and its nested Download, committed its region once
C30_Witness ==
    /\ backend = "vk" /\ last.op = "Download"
    /\ surfaces[last.slot].type = "DepthStencil" /\ surfaces[last.slot].res_scale # 1
    /\ Len(last.ephem) = 1
    /\ PerformsTransfer(last.units)
    /\ Len(last.commits) = 1 /\ last.commits[1].size = last.input.buffer_size

---------------------------------------------------------------------------
(* The region a direct download reads *)

\* TextureRuntime::ReadTexture of texture_runtime.cpp: the level is attached
\* to the read framebuffer and read with glReadPixels(x, y, width, height),
\* whose last two arguments the code computes as offset + extent
ReadTexture(R, texture, copy) ==
    Record(R, Unit("Download", "gl",
                   <<[cmd |-> "glReadPixels", image |-> texture, type |-> copy.surface_type,
                      level |-> copy.texture_level,
                      x |-> copy.texture_offset.x, y |-> copy.texture_offset.y,
                      width |-> copy.texture_offset.x + copy.texture_extent.width,
                      height |-> copy.texture_offset.y + copy.texture_extent.height,
                      row_length |-> copy.buffer_row_length]>>))

\* CachedSurface::DownloadGLTexture; the surfaces of the model have
\* stride = width.  Offset is {x, y} and Extent is {width, height}.
DownloadGLTexture(dev, R, s, rect, pick) ==
    IF s.type = "Fill" THEN R
    ELSE LET stride == s.width
             buffer_offset == (rect.bottom * stride + rect.left) * GetBytesPerPixel(s.pixel_format)
         IN IF s.res_scale # 1
            THEN LET scaled_rect == RectScale(rect, s.res_scale)
                     R1 == AllocateSurfaceTexture(R, s.pixel_format, GetWidth(rect),
                                                  GetHeight(rect), pick)
                     unscaled_tex == R1.alloc
                     R2 == NoteEphemeral(R1, Constructed(R1, UnscaledParams(s, rect)))
                     R3 == BlitTexturesLegacy(R2, s.alloc, unscaled_tex, s.type,
                                              [start |-> <<scaled_rect.left, scaled_rect.bottom>>,
                                               end |-> <<scaled_rect.right, scaled_rect.top>>],
                                              [start |-> <<0, 0>>,
                                               end |-> <<GetWidth(rect), GetHeight(rect)>>])
                 IN Record(R3, Unit("Download", "gl",
                                    <<[cmd |-> "glGetTexImage", image |-> unscaled_tex,
                                       type |-> s.type, level |-> 0]>>))
            ELSE ReadTexture(R, s.alloc,
                             [buffer_offset |-> buffer_offset,
                              buffer_size |-> s.width * s.height * GetBytesPerPixel(s.pixel_format),
                              buffer_row_length |-> stride, buffer_height |-> s.height,
                              surface_type |-> s.type, texture_level |-> 0,
                              texture_offset |-> [x |-> rect.bottom, y |-> rect.left],
                              texture_extent |-> [width |-> GetWidth(rect),
                                                  height |-> GetHeight(rect)]])

\* CachedSurface::DownloadGLTexture of a rectangle of the surface
LegacyDownload(slot) ==
    /\ backend = "legacy"
    /\ Live(slot)
    /\ LET s == surfaces[slot]
       IN \E rect \in RectsOf(s) :
          \E pick \in EphemeralPicks(backend, device, s, rect, "Download") :
             /\ Room(pick) \/ s.res_scale = 1
             /\ LET R == DownloadGLTexture(device, Now, s, rect, pick)
                IN /\ Apply(R)
                   /\ last' = Done("DownloadGLTexture", slot,
                                   BufferTextureCopy(0, 0, rect, 0), R)
    /\ UNCHANGED <<backend, device, surfaces, gpu>>
    /\ UNCHANGED details

\* Surfaces are constructed, downloaded from and destroyed
ReadNext ==
    \/ \E slot \in Slots : CreateSurface(slot)
    \/ \E slot \in Slots : DestroySurface(slot)
    \/ \E slot \in Slots : Download(slot)
    \/ \E slot \in Slots : LegacyDownload(slot)
    \/ Finish

SpecRead == Init /\ [][ReadNext]_vars

\* What a readback command reads and how it lays out its destination
ReadRegion(c) ==
    IF c.cmd = "copyImageToBuffer"
    THEN [x |-> c.copies[1].imageOffset[1], y |-> c.copies[1].imageOffset[2],
          width |-> c.copies[1].imageExtent[1], height |-> c.copies[1].imageExtent[2],
          level |-> c.copies[1].mipLevel, row_length |-> c.copies[1].bufferRowLength]
    ELSE [x |-> c.x, y |-> c.y, width |-> c.width, height |-> c.height,
          level |-> c.level, row_length |-> c.row_length]

\* The last operation was a download that took the direct path
DirectDownload ==
    /\ last.op \in {"Download", "DownloadGLTexture"}
    /\ surfaces[last.slot].res_scale = 1
    /\ surfaces[last.slot].type # "Fill"
    /\ ~(backend = "vk" /\ surfaces[last.slot].type = "DepthStencil")

\* The readback of a direct download covers the requested rectangle
ReadsRequestedRect ==
    LET cmds == Commands(last.units)
        rect == last.input.texture_rect
    IN /\ \E i \in DOMAIN cmds : IsReadback(cmds[i])
       /\ \A i \in DOMAIN cmds :
             IsReadback(cmds[i]) =>
                LET r == ReadRegion(cmds[i])
                IN /\ r.x = rect.left /\ r.y = rect.bottom
                   /\ r.width = GetWidth(rect) /\ r.height = GetHeight(rect)
                   /\ r.level = last.input.texture_level
                   /\ r.row_length \in {GetWidth(rect), surfaces[last.slot].width}

\* C31: a direct (scale 1) download reads exactly the pixels of the requested
\* rectangle: origin (rect.left, rect.bottom), extent width x height of the
\* rectangle, at the requested mip level, with the row length of the
\* destination equal to the rectangle width or the stride of the buffer.
C31_DirectDownloadRegion == DirectDownload => ReadsRequestedRect

\* The two texture runtimes read the requested rectangle
RuntimeDownloadRegion == (DirectDownload /\ backend \in {"vk", "gl"}) => ReadsRequestedRect

\* Direct downloads of a rectangle away from the origin were made
RuntimeDownloadWitness ==
    /\ DirectDownload /\ backend \in {"vk", "gl"}
    /\ last.input.texture_rect.left # 0

---------------------------------------------------------------------------
(* The closing assertion of Surface::UnpackDepthStencil *)

\* The staging sizes the unpacking is followed pass by pass for
MaxBytes == 26

\* The largest staging region: all of the upload buffer, in bytes
MaxStagingBytes == UPLOAD_BUFFER_SIZE * 1024 * 1024

\* The largest u32 whose product by 4 is below 2^32
LargestQuadrupled == 1073741823

\* 4 * data.size in 32 bits is the product itself
ProductFits(size) == size <= LargestQuadrupled

\* FindStaging maps regions at multiples of 4 in a buffer whose size is one:
\* the bytes up to the next multiple of 4 behind a region are bytes of the buffer
Aligned4(size) == 4 * ((size + 3) \div 4)

\* A staging region of any size in a D24S8 surface's upload, the contract of
\* 5 bytes a texel kept or not, and the bytes of the buffer it lies in
AssertInit ==
    /\ Unbuilt
    /\ backend = "vk"
    /\ device = "full"
    /\ texture_recycler = {}
    /\ gpu = GpuStart
    /\ pixels = <<>>
    /\ scheduler = <<>>
    /\ process = "running"
    /\ surfaces = [slot \in Slots |-> NoSurface]
    /\ images = <<>>
    /\ upload_cmdbuf = <<>>
    /\ render_cmdbuf = <<>>
    /\ \E size \in 1..MaxBytes : \E byte \in ByteSamples : \E offset \in StagingOffsets :
          /\ mapped = [i \in 1..Aligned4(size) |-> IF i % 2 = 0 THEN byte ELSE i]
          /\ last = [op |-> "FindStaging",
                     staging |-> StagingData("upload_buffer", size, offset)]

\* Surface::UnpackDepthStencil on the region, the destination format being
\* D24UnormS8Uint
UnpackRegion ==
    /\ process = "running"
    /\ last.op = "FindStaging"
    /\ LET data == [size |-> last.staging.size, mapped |-> mapped]
           result == UnpackDepthStencil(data, "D24UnormS8Uint")
       IN /\ mapped' = result.mapped
          /\ process' = result.process
          /\ last' = [op |-> "UnpackDepthStencil", data |-> data, staging |-> last.staging,
                      returned |-> result.returned, ret |-> result.ret,
                      logged |-> result.logged, log |-> result.log]
    /\ UNCHANGED <<backend, device, surfaces, texture_recycler, images, upload_cmdbuf,
                   render_cmdbuf, gpu, pixels, scheduler>>
    /\ UNCHANGED components

AssertNext == UnpackRegion

SpecAssert == AssertInit /\ [][AssertNext]_vars

---------------------------------------------------------------------------
(* Service::APT: the shared font (apt.cpp) *)

\* The GetSharedFont requests followed
MaxRequests == 6

\* Memory::LINEAR_HEAP_VADDR
LINEAR_HEAP_VADDR == 335544320

\* The offsets in the linear heap the kernel may create the shared memory at
HeapOffsets == {0, 4096, 3354624}

\* The font region codes LoadSharedFont derives from the CFG region
FontRegions == 1..4

RESULT_SUCCESS == 0

\* Module::Module: the shared memory is created, nothing is loaded.  base is
\* the address the offsets inside the font are relative to.
NewModule(offset) ==
    [shared_font_mem |-> [content |-> "empty", region |-> 0, base |-> 0,
                          linear_heap_offset |-> offset],
     shared_font_loaded |-> FALSE, shared_font_relocated |-> FALSE,
     loads |-> 0, relocations |-> 0, requests |-> 0]

\* Module::LoadSharedFont: the font of the region from the system archive,
\* when the archive and the file in it are there
LoadSharedFont(M, archive, region) ==
    IF archive
    THEN [ok |-> TRUE,
          apt |-> [M EXCEPT !.shared_font_mem.content = "bcfnt",
                            !.shared_font_mem.region = region,
                            !.shared_font_mem.base = 0, !.loads = @ + 1]]
    ELSE [ok |-> FALSE, apt |-> M]

\* Module::LoadLegacySharedFont: shared_font.bin of the sysdata directory
LoadLegacySharedFont(M, file) ==
    IF file
    THEN [ok |-> TRUE,
          apt |-> [M EXCEPT !.shared_font_mem.content = "shared_font.bin",
                            !.shared_font_mem.base = 0, !.loads = @ + 1]]
    ELSE [ok |-> FALSE, apt |-> M]

\* BCFNT::RelocateSharedFont: the offsets of the font are moved from the
\* address they are relative to onto the new address
RelocateSharedFont(M, new_address) ==
    [M EXCEPT !.shared_font_mem.base = new_address, !.relocations = @ + 1]

\* What a request comes to: the module after it, the reply and the log
Replied(M, result, address, object, logged, status) ==
    [apt |-> [M EXCEPT !.requests = @ + 1],
     reply |-> [result |-> result, address |-> address, object |-> object],
     logged |-> logged, status |-> status]

\* GetSharedFont relocating the font on every request
GetSharedFontRelocatesAgain(M, archive, file, region) ==
    LET first == LoadSharedFont(M, archive, region)
        second == LoadLegacySharedFont(M, file)
        loaded == IF M.shared_font_loaded THEN [ok |-> TRUE, apt |-> M]
                  ELSE IF first.ok THEN first ELSE second
        M1 == [loaded.apt EXCEPT !.shared_font_loaded = TRUE]
        target_address == M1.shared_font_mem.linear_heap_offset + LINEAR_HEAP_VADDR
        M2 == [RelocateSharedFont(M1, target_address) EXCEPT !.shared_font_relocated = TRUE]
    IN IF ~loaded.ok
       THEN Replied(M, -1, 0, "nullptr", <<"shared font file missing">>, "ErrorSystemFiles")
       ELSE Replied(M2, RESULT_SUCCESS, target_address, "shared_font_mem", <<>>, "Success")

\* Module::APTInterface::GetSharedFont
GetSharedFont(M, archive, file, region) ==
    LET first == LoadSharedFont(M, archive, region)
        second == LoadLegacySharedFont(M, file)
        loaded == IF M.shared_font_loaded THEN [ok |-> TRUE, apt |-> M]
                  ELSE IF first.ok THEN first ELSE second
        logged == IF ~M.shared_font_loaded /\ ~first.ok /\ second.ok
                  THEN <<"Loaded shared font by legacy method">> ELSE <<>>
        M1 == [loaded.apt EXCEPT !.shared_font_loaded = TRUE]
        target_address == M1.shared_font_mem.linear_heap_offset + LINEAR_HEAP_VADDR
        M2 == IF ~M1.shared_font_relocated
              THEN [RelocateSharedFont(M1, target_address) EXCEPT
                        !.shared_font_relocated = TRUE]
              ELSE M1
    IN IF ~loaded.ok
       THEN Replied(M, -1, 0, "nullptr", <<"shared font file missing">>, "ErrorSystemFiles")
       ELSE Replied(M2, RESULT_SUCCESS, target_address, "shared_font_mem", logged, "Success")

\* The service starts with its shared memory somewhere in the linear heap
AptInit ==
    /\ backend = "vk"
    /\ device = "full"
    /\ surfaces = [slot \in Slots |-> NoSurface]
    /\ texture_recycler = {}
    /\ images = <<>>
    /\ upload_cmdbuf = <<>>
    /\ render_cmdbuf = <<>>
    /\ gpu = GpuStart
    /\ pixels = <<>>
    /\ mapped = <<>>
    /\ scheduler = <<>>
    /\ process = "running"
    /\ framebuffer_cache = <<>>
    /\ download_buffer = <<>>
    /\ upload_buffer = <<>>
    /\ pool = <<>>
    /\ threads = <<>>
    /\ memory = <<>>
    /\ \E offset \in HeapOffsets : apt = NewModule(offset)
    /\ last = [op |-> "Module"]

\* An application sends a GetSharedFont request; the system archive and the
\* legacy font file are there or not
GetSharedFontRequest ==
    /\ apt.requests < MaxRequests
    /\ \E archive \in BOOLEAN : \E file \in BOOLEAN : \E region \in FontRegions :
          LET done == GetSharedFont(apt, archive, file, region)
          IN /\ apt' = done.apt
             /\ last' = [op |-> "GetSharedFont", reply |-> done.reply,
                         logged |-> done.logged, status |-> done.status]
    /\ UNCHANGED <<backend, device, surfaces, texture_recycler, images, upload_cmdbuf,
                   render_cmdbuf, gpu, pixels, mapped, scheduler, process,
                   framebuffer_cache, download_buffer, upload_buffer, pool, threads, memory>>

AptNext == GetSharedFontRequest

SpecApt == AptInit /\ [][AptNext]_vars

\* C33: across any sequence of GetSharedFont requests the shared font is
\* loaded at most once and relocated at most once, and every success reply
\* (RESULT_SUCCESS, the target address and the shared memory object) is sent
\* only after the font has been loaded and relocated to that target address.
C33_SharedFontOnce ==
    /\ apt.loads <= 1
    /\ apt.relocations <= 1
    /\ (last.op = "GetSharedFont" /\ last.reply.result = RESULT_SUCCESS) =>
          /\ last.reply.object = "shared_font_mem"
          /\ last.reply.address = apt.shared_font_mem.linear_heap_offset + LINEAR_HEAP_VADDR
          /\ apt.shared_font_loaded /\ apt.loads = 1
          /\ apt.shared_font_mem.content # "empty"
          /\ apt.shared_font_relocated /\ apt.relocations = 1
          /\ apt.shared_font_mem.base = last.reply.address

\* A success reply to a request that came after the one that loaded and
\* relocated the font, and after one that failed
C33_Witness ==
    /\ last.op = "GetSharedFont" /\ last.reply.result = RESULT_SUCCESS
    /\ apt.requests >= 3
    /\ apt.loads = 1 /\ apt.relocations = 1
    /\ apt.shared_font_mem.content = "shared_font.bin"

---------------------------------------------------------------------------
(* Render passes around the operations of the Vulkan runtime *)

\* Pairs of surfaces of one type, with and without a resolution scale
PassParams ==
    { <<Params("RGBA8", "Texture2D", 2, 2, 1, 1), Params("RGBA8", "Texture2D", 2, 2, 2, 1)>>,
      <<Params("D24S8", "Texture2D", 2, 2, 1, 1), Params("D24S8", "Texture2D", 1, 1, 2, 1)>> }

\* Two surfaces whose images are in use, no render pass active
PassInit ==
    /\ Unbuilt
    /\ backend = "vk"
    /\ device \in DeviceProfiles
    /\ texture_recycler = {}
    /\ pixels = <<>>
    /\ mapped = <<>>
    /\ process = "running"
    /\ scheduler = SchedulerIdle
    /\ \E pair \in PassParams :
          LET R1 == SurfaceCtor(backend, device, Runtime({}, <<>>, <<>>, <<>>), pair[1], NoEntry)
              R2 == SurfaceCtor(backend, device, R1, pair[2], NoEntry)
              G == Submit(GpuState(R2.images, TRUE, TRUE), R2.upload, R2.render)
          IN /\ surfaces = <<Constructed(R1, pair[1]), Constructed(R2, pair[2])>>
             /\ images = G.images
             /\ gpu = [layouts_ok |-> G.layouts_ok, settled |-> G.settled]
             /\ upload_cmdbuf = <<>>
             /\ render_cmdbuf = <<>>
             /\ last = Done("Finish", 0, <<>>, Runtime({}, G.images, <<>>, <<>>))

\* The runtime as an operation finds it, in a render pass or not
NowInPass ==
    [Now EXCEPT !.renderpass = scheduler.renderpass, !.began = scheduler.renderpass]

\* The runtime and the render pass state after an operation
Passed(op, slot, input, R) ==
    /\ Len(render_cmdbuf) < MaxPending
    /\ Apply(R)
    /\ scheduler' = [scheduler EXCEPT !.renderpass = R.renderpass]
    /\ last' = Done(op, slot, input, R)
    /\ UNCHANGED <<backend, device, surfaces, gpu, pixels, mapped, process>>
    /\ UNCHANGED components

\* Surface::Upload
PassUpload(slot) ==
    LET s == surfaces[slot]
    IN \E rect \in RectsOf(s) :
       \E pick \in EphemeralPicks(backend, device, s, rect, "Upload") :
          LET staging == StagingFor(backend, s, rect, "upload_buffer")
              upload == BufferTextureCopy(0, staging.size, rect, 0)
          IN Passed("Upload", slot, upload,
                    UploadVk(device, NowInPass, s, upload, staging, pick))

\* Surface::Download
PassDownload(slot) ==
    LET s == surfaces[slot]
    IN \E rect \in RectsOf(s) :
       \E pick \in EphemeralPicks(backend, device, s, rect, "Download") :
          LET staging == StagingFor(backend, s, rect, "download_buffer")
              download == BufferTextureCopy(0, staging.size, rect, 0)
          IN Passed("Download", slot, download,
                    DownloadVk(device, NowInPass, s, download, staging, pick))

\* TextureRuntime::ClearTexture of the whole surface or of its last texel
PassClear(slot) ==
    LET s == surfaces[slot]
    IN \E rect \in RectsOf(s) :
          LET clear == TextureClearValue(0, RectScale(rect, s.res_scale), FillValue)
          IN Passed("ClearTexture", slot, clear,
                    ClearTextureVk(NowInPass, s, TextureClear(0, clear.texture_rect),
                                   FillValue))

\* TextureRuntime::CopyTextures
PassCopy(src, dst) ==
    /\ src # dst
    /\ LET copy == TextureCopy(0, 0, <<0, 0>>, <<0, 0>>, <<1, 1>>)
       IN Passed("CopyTextures", src, [copy |-> copy, dst |-> dst],
                 CopyTexturesVk(NowInPass, surfaces[src], surfaces[dst], copy))

\* TextureRuntime::BlitTextures
PassBlit(src, dst) ==
    /\ src # dst
    /\ LET blit == TextureBlit(0, 0, GetScaledRect(surfaces[src]), GetScaledRect(surfaces[dst]))
       IN Passed("BlitTextures", src, [blit |-> blit, dst |-> dst],
                 BlitTexturesVk(NowInPass, surfaces[src], surfaces[dst], blit))

\* TextureRuntime::Finish: leaves the render pass and submits
PassFinish ==
    /\ upload_cmdbuf \o render_cmdbuf # <<>>
    /\ LET G == Submit(GpuState(images, gpu.layouts_ok, gpu.settled),
                       upload_cmdbuf, render_cmdbuf)
       IN /\ images' = G.images
          /\ gpu' = [layouts_ok |-> G.layouts_ok, settled |-> G.settled]
    /\ upload_cmdbuf' = <<>>
    /\ render_cmdbuf' = <<>>
    /\ scheduler' = [scheduler EXCEPT !.renderpass = FALSE]
    /\ last' = Done("Finish", 0, <<>>,
                    [Runtime(texture_recycler, images', <<>>, <<>>) EXCEPT
                        !.units = upload_cmdbuf \o render_cmdbuf])
    /\ UNCHANGED <<backend, device, surfaces, texture_recycler, pixels, mapped, process>>
    /\ UNCHANGED components

PassNext ==
    \/ \E slot \in Slots : PassUpload(slot)
    \/ \E slot \in Slots : PassDownload(slot)
    \/ \E slot \in Slots : PassClear(slot)
    \/ \E src, dst \in Slots : PassCopy(src, dst)
    \/ \E src, dst \in Slots : PassBlit(src, dst)
    \/ Draw
    \/ PassFinish

SpecPass == PassInit /\ [][PassNext]_vars

\* The operations that record transfer commands
TransferOps == {"ClearTexture", "CopyTextures", "BlitTextures", "Upload", "Download"}

\* C34: ClearTexture, CopyTextures, BlitTextures, Surface::Upload and
\* Surface::Download leave the active render pass before they record a
\* transfer command: none of their barriers, copies, blits, dispatches or
\* image clears is recorded while a render pass is active, a render pass is
\* no longer active once they have recorded something, and no render pass is
\* active after ClearTexture took its render pass path.
C34_NoTransferInRenderpass ==
    last.op \in TransferOps =>
        /\ last.inside = <<>>
        /\ last.units # <<>> => ~scheduler.renderpass
        /\ last.op = "ClearTexture" => ~scheduler.renderpass

\* ClearTexture was called in an active render pass and took its render
\* pass path
C34_Witness ==
    /\ last.op = "ClearTexture" /\ last.began
    /\ \E i \in DOMAIN last.units : last.units[i].kind = "ClearTextureWithRenderpass"
    /\ ~scheduler.renderpass

---------------------------------------------------------------------------
(* The initial layout transition and the first uses of a fresh image *)

\* The place of an executed unit in the order of execution
ExecutedAt(id) == CHOOSE k \in DOMAIN scheduler.executed : scheduler.executed[k] = id

\* The render command buffer unit b was recorded after the initial
\* transition a of an image it works on
UsesFresh(a, b) ==
    /\ a < b
    /\ scheduler.recorded[a].unit.kind = "Allocate"
    /\ scheduler.recorded[b].unit.cmdbuf = "render"
    /\ ImagesOf(scheduler.recorded[a].unit) \cap ImagesOf(scheduler.recorded[b].unit) # {}

Nests(be, call) ==
    \/ call.path = "depth-stencil"
    \/ call.path = "scaled" /\ (be = "vk" \/ call.op = "Upload")

\* C36: Surface::Upload and Surface::Download return after at most two nested
\* calls: the outer call is at depth 1, a scaled or depth-stencil path makes
\* exactly one nested call at depth 2, that call takes the direct path, and
\* the ephemeral surface it runs on has resolution scale 1 (and type Color
\* in a depth-stencil download)
C36_NestingDepth ==
    last.op \in {"Upload", "Download"} =>
        /\ Len(last.nesting) \in 1..2
        /\ last.nesting[1].depth = 1
        /\ last.nesting[1].op = last.op
        /\ Len(last.nesting) = 2 <=> Nests(backend, last.nesting[1])
        /\ \A i \in 2..Len(last.nesting) :
              /\ last.nesting[i].depth = 2
              /\ last.nesting[i].op = last.op
              /\ last.nesting[i].path = "direct"
        /\ \A i \in 1..Len(last.ephem) :
              /\ last.ephem[i].surface.res_scale = 1
              /\ last.nesting[1].path = "depth-stencil"
                    => last.ephem[i].surface.type = "Color"

\* A scaled depth-stencil download has made its nested direct download
C36_Witness ==
    /\ last.op = "Download"
    /\ backend = "vk"
    /\ Len(last.nesting) = 2
    /\ last.nesting[1].path = "depth-stencil"
    /\ last.nesting[2].path = "direct"
    /\ surfaces[last.slot].res_scale > 1
    /\ Len(last.ephem) = 1

\* ---------------------------------------------------------------------------
\* The mip levels of the R32 image of a depth-stencil download
\* ---------------------------------------------------------------------------

\* The extent of a mip level of an image dimension
MipExtent(size, level) == Max(1, size \div (2 ^ level))

\* The units of a kind an operation recorded
UnitsOf(kind) == SelectSeq(last.units, LAMBDA u : u.kind = kind)

\* The last operation was a depth-stencil download that built its R32 image
DepthStencilDownloaded ==
    /\ backend = "vk"
    /\ last.op = "Download"
    /\ surfaces[last.slot].type = "DepthStencil"
    /\ Len(last.ephem) = 1
    /\ last.ephem[1].surface.alloc # NoAlloc

\* C37: a depth-stencil download at scale S >= 2 of a w x h rectangle blits
\* inside the R32 image from mip level 0 to mip level 1, so the two barriers
\* ahead of the blit are on different subresources; the image has at least
\* two levels and the w x h destination lies within level 1, whose extent is
\* floor(S*w/2) x floor(S*h/2); the readback is of level 1 when scaled and of
\* level 0, with no blit, at scale 1
C37_R32MipLevels ==
    DepthStencilDownloaded =>
        LET S == surfaces[last.slot].res_scale
            rect == last.input.texture_rect
            w == GetWidth(rect)
            h == GetHeight(rect)
            r32 == last.ephem[1].surface.alloc
            image == images[r32]
            blits == UnitsOf("BlitTextures")
            reads == UnitsOf("Download")
        IN /\ image.width = S * w /\ image.height = S * h
           /\ Len(reads) = 1
           /\ reads[1].cmds[2].image = r32
           /\ reads[1].cmds[2].copies[1].mipLevel = (IF S >= 2 THEN 1 ELSE 0)
           /\ reads[1].cmds[2].copies[1].imageExtent = <<w, h>>
           /\ S = 1 => blits = <<>>
           /\ S >= 2 =>
                 /\ Len(blits) = 1
                 /\ LET cmds == blits[1].cmds
                        blit == cmds[3].blit
                    IN /\ cmds[3].src = r32 /\ cmds[3].dst = r32
                       /\ blit.src_level = 0 /\ blit.dst_level = 1
                       /\ Barrier(cmds[1]) /\ Barrier(cmds[2])
                       /\ cmds[1].image = r32 /\ cmds[2].image = r32
                       /\ cmds[1].level = 0 /\ cmds[2].level = 1
                       /\ cmds[1].levelCount = 1 /\ cmds[2].levelCount = 1
                       /\ blit.src_rect = Rect(0, S * h, S * w, 0)
                       /\ blit.dst_rect = Rect(0, h, w, 0)
                       /\ image.levels >= 2
                       /\ MipExtent(image.width, 1) = (S * w) \div 2
                       /\ MipExtent(image.height, 1) = (S * h) \div 2
                       /\ w <= MipExtent(image.width, 1)
                       /\ h <= MipExtent(image.height, 1)

\* A single texel of a surface at scale 3 was downloaded: level 1 of the 3 x 3
\* R32 image is one texel
C37_Witness ==
    /\ DepthStencilDownloaded
    /\ surfaces[last.slot].res_scale = 3
    /\ GetWidth(last.input.texture_rect) = 1
    /\ Len(UnitsOf("BlitTextures")) = 1
    /\ images[last.ephem[1].surface.alloc].levels = 2

\* ---------------------------------------------------------------------------
\* ObjectPool and ThreadSafeObjectPool: the slots handed out
\* ---------------------------------------------------------------------------
(* The pool here is followed slot by slot.  pool.vacants is the vector of
   vacant addresses, pool.memory the blocks (base and size; the addresses of
   a block are base + 1 .. base + size, blocks of memalign_alloc are
   disjoint), pool.objects the number of constructed objects at each
   address, pool.lock the threads holding the mutex, pool.safe whether the
   pool is a ThreadSafeObjectPool.  threads[t] is the position of thread t
   inside a call, the pointer the call works on, and the pointers the thread
   owns.  A plain ObjectPool is called by one thread only. *)

MaxThreads == 2
MaxOwned == 2       \* pointers a thread owns at a time
MaxBlocks == 3      \* blocks the pool grows to
FirstBatch == 1     \* objects of the first block in this model (64 in the source)

Threads == 1..MaxThreads

Addresses(P) ==
    UNION {(P.memory[i].base + 1)..(P.memory[i].base + P.memory[i].size) : i \in DOMAIN P.memory}

\* A lock that never makes a thread wait
MayLockAlways(P, t) == TRUE

\* std::lock_guard<std::mutex> holder{lock}: the constructor returns once no
\* thread holds the mutex
MayLock(P, t) == P.lock = {}

\* The calls of a plain ObjectPool take no lock and come from one thread
Enters(P, t) == IF P.safe THEN MayLock(P, t) ELSE t = 1

Locked(P, t) == IF P.safe THEN [P EXCEPT !.lock = @ \cup {t}] ELSE P

\* The lock_guard goes out of scope
Unlocked(P, t) == [P EXCEPT !.lock = @ \ {t}]

\* ObjectPool::Allocate, the growth: a block of FirstBatch << memory.size()
\* objects, every address of it pushed to vacants in order
GrowPool(P) ==
    LET num_objects == FirstBatch * (2 ^ Len(P.memory))
        base == IF P.memory = <<>> THEN 0
                ELSE P.memory[Len(P.memory)].base + P.memory[Len(P.memory)].size
        fresh == (base + 1)..(base + num_objects)
    IN [P EXCEPT !.vacants = @ \o [i \in 1..num_objects |-> base + i],
                 !.memory = Append(@, [base |-> base, size |-> num_objects]),
                 !.objects = [a \in DOMAIN P.objects \cup fresh |->
                                 IF a \in DOMAIN P.objects THEN P.objects[a] ELSE 0]]

ThreadsInit ==
    /\ backend = "vk"
    /\ device = "full"
    /\ surfaces = [slot \in Slots |-> NoSurface]
    /\ texture_recycler = {}
    /\ images = <<>>
    /\ upload_cmdbuf = <<>>
    /\ render_cmdbuf = <<>>
    /\ gpu = GpuStart
    /\ pixels = <<>>
    /\ mapped = <<>>
    /\ scheduler = <<>>
    /\ process = "running"
    /\ framebuffer_cache = <<>>
    /\ download_buffer = <<>>
    /\ upload_buffer = <<>>
    /\ apt = <<>>
    /\ memory = <<>>
    /\ \E safe \in BOOLEAN :
          pool = [vacants |-> <<>>, memory |-> <<>>, objects |-> <<>>, lock |-> {},
                  freed |-> {}, safe |-> safe]
    /\ threads = [t \in Threads |-> [pc |-> "idle", ptr |-> 0, owned |-> {}]]
    /\ last = [op |-> "ObjectPool"]

ThreadsDone(P, t, pc, ptr, owned, did) ==
    /\ pool' = P
    /\ threads' = [threads EXCEPT ![t] = [pc |-> pc, ptr |-> ptr, owned |-> owned]]
    /\ last' = did
    /\ UNCHANGED <<backend, device, surfaces, texture_recycler, images, upload_cmdbuf,
                   render_cmdbuf, gpu, pixels, mapped, scheduler, process,
                   framebuffer_cache, download_buffer, upload_buffer, apt, memory>>

\* Allocate is called; ThreadSafeObjectPool::Allocate takes the lock
AllocateEnter(t) ==
    /\ threads[t].pc = "idle"
    /\ Cardinality(threads[t].owned) < MaxOwned
    /\ Enters(pool, t)
    /\ ThreadsDone(Locked(pool, t), t, "entered", 0, threads[t].owned, last)

\* ObjectPool::Allocate up to `T *ptr = vacants.back()`: the pool grows if it
\* has no vacant slot, and the call returns nullptr if memalign_alloc fails
AllocateBack(t) ==
    /\ threads[t].pc = "entered"
    /\ \E ok \in BOOLEAN :
          /\ (ok /\ pool.vacants = <<>>) => Len(pool.memory) < MaxBlocks
          /\ IF pool.vacants = <<>> /\ ~ok
             THEN ThreadsDone(Unlocked(pool, t), t, "idle", 0, threads[t].owned,
                              [op |-> "Allocate", thread |-> t, ptr |-> 0, failed |-> TRUE,
                               taken |-> FALSE, reused |-> FALSE])
             ELSE \E P \in {IF pool.vacants = <<>> THEN GrowPool(pool) ELSE pool} :
                     ThreadsDone(P, t, "back", P.vacants[Len(P.vacants)], threads[t].owned,
                                 last)

\* vacants.pop_back(); on an empty vector the behaviour is undefined: the
\* vector stays empty here
AllocatePop(t) ==
    /\ threads[t].pc = "back"
    /\ ThreadsDone([pool EXCEPT !.vacants = IF @ = <<>> THEN @ ELSE SubSeq(@, 1, Len(@) - 1)],
                   t, "popped", threads[t].ptr, threads[t].owned, last)

\* new(ptr) T(...); return ptr; the lock is released
AllocateReturn(t) ==
    /\ threads[t].pc = "popped"
    /\ LET ptr == threads[t].ptr
       IN ThreadsDone(Unlocked([pool EXCEPT !.objects[ptr] = @ + 1], t), t, "idle", 0,
                      threads[t].owned \cup {ptr},
                      [op |-> "Allocate", thread |-> t, ptr |-> ptr, failed |-> FALSE,
                       taken |-> pool.objects[ptr] > 0, reused |-> ptr \in pool.freed])

\* Free(ptr) of a pointer the thread owns: ptr->~T(), ahead of the lock
FreeDestroy(t) ==
    /\ threads[t].pc = "idle"
    /\ \E ptr \in threads[t].owned :
          ThreadsDone([pool EXCEPT !.objects[ptr] = @ - 1], t, "destroyed", ptr,
                      threads[t].owned \ {ptr}, last)

\* ThreadSafeObjectPool::Free takes the lock
FreeLock(t) ==
    /\ threads[t].pc = "destroyed"
    /\ Enters(pool, t)
    /\ ThreadsDone(Locked(pool, t), t, "freeing", threads[t].ptr, threads[t].owned, last)

\* vacants.push_back(ptr); the lock is released
FreePush(t) ==
    /\ threads[t].pc = "freeing"
    /\ LET ptr == threads[t].ptr
       IN ThreadsDone(Unlocked([pool EXCEPT !.vacants = Append(@, ptr),
                                            !.freed = @ \cup {ptr}], t),
                      t, "idle", 0, threads[t].owned,
                      [op |-> "Free", thread |-> t, ptr |-> ptr, failed |-> FALSE,
                       taken |-> FALSE, reused |-> FALSE])

ThreadsNext ==
    \/ \E t \in Threads : AllocateEnter(t)
    \/ \E t \in Threads : AllocateBack(t)
    \/ \E t \in Threads : AllocatePop(t)
    \/ \E t \in Threads : AllocateReturn(t)
    \/ \E t \in Threads : FreeDestroy(t)
    \/ \E t \in Threads : FreeLock(t)
    \/ \E t \in Threads : FreePush(t)

SpecThreads == ThreadsInit /\ [][ThreadsNext]_vars

VacantSlots == {pool.vacants[i] : i \in DOMAIN pool.vacants}
LiveObjects == {a \in Addresses(pool) : pool.objects[a] > 0}

\* The slots a call has taken out of the pool or not yet put back
InTransit == {threads[t].ptr : t \in {u \in Threads : threads[u].pc \in {"popped", "destroyed", "freeing"}}}

Quiescent == \A t \in Threads : threads[t].pc = "idle"

\* C38: the pool never hands out a slot that is allocated: no address is
\* vacant twice, none is both vacant and live, no address holds two objects,
\* the pointers of two threads are distinct, and every slot of every block is
\* vacant, live or inside a running call; between calls every slot is either
\* vacant or live.  This holds for the plain pool called by one thread and
\* for the thread-safe pool under every interleaving of its callers.
C38_SlotsDistinct ==
    /\ \A i, j \in DOMAIN pool.vacants : pool.vacants[i] = pool.vacants[j] => i = j
    /\ VacantSlots \cap LiveObjects = {}
    /\ \A a \in Addresses(pool) : pool.objects[a] <= 1
    /\ \A t, u \in Threads : t # u => threads[t].owned \cap threads[u].owned = {}
    /\ LiveObjects = UNION {threads[t].owned : t \in Threads}
    /\ Addresses(pool) = VacantSlots \cup LiveObjects \cup InTransit
    /\ InTransit \cap LiveObjects = {}
    /\ Quiescent => \A a \in Addresses(pool) : (a \in VacantSlots) # (a \in LiveObjects)
    /\ (last.op = "Allocate" /\ ~last.failed) => ~last.taken

\* A thread was handed a slot another call had freed, while the other thread
\* is between the destructor and the lock of its own Free
C38_Witness ==
    /\ pool.safe
    /\ last.op = "Allocate" /\ last.reused /\ last.thread = 2
    /\ threads[1].pc = "destroyed"
    /\ Len(pool.memory) >= 2
    /\ Cardinality(LiveObjects) >= 2

\* ---------------------------------------------------------------------------
\* CachedSurface::FlushGLBuffer of a Fill surface
\* ---------------------------------------------------------------------------
(* memory maps the physical addresses of the first bytes of a memory region
   to their byte values; slot 1 holds a Fill surface [addr, end) inside the
   region, with its fill_size and fill_data.  The regions are VRAM
   (0x18000000) and the extra RAM (0x1F000000); the fill sizes are those of
   the 16, 24 and 32 bit memory fills. *)

MaxWindow == 7      \* bytes of a region that are followed

VRAM_VADDR == 520093696         \* 0x1F000000
VRAM_VADDR_END == 526385152     \* 0x1F600000

RegionBases == {402653184, 520093696}
FillSizes == {2, 3, 4}
FillPatterns == {<<1, 2, 3, 4>>}

\* std::memcpy(&dst_buffer[offset], &src[0], count)
MemcpyTo(mem, addr, offset, src, count) ==
    [a \in DOMAIN mem |->
        IF a >= addr + offset /\ a < addr + offset + count
        THEN src[a - (addr + offset) + 1] ELSE mem[a]]

\* std::memcpy(&backup_data[0], &dst_buffer[offset], count)
MemcpyFrom(mem, addr, offset, count) == [i \in 1..count |-> mem[addr + offset + (i - 1)]]

\* The loop of FlushGLBuffer: whole units of the pattern, the last one cut at
\* end_offset
RECURSIVE FillUnits(_, _, _, _)
FillUnits(mem, s, offset, end_offset) ==
    IF offset < end_offset
    THEN FillUnits(MemcpyTo(mem, s.addr, offset, s.fill_data,
                            IF s.fill_size <= end_offset - offset THEN s.fill_size
                            ELSE end_offset - offset),
                   s, offset + s.fill_size, end_offset)
    ELSE mem

\* A flush that leaves the bytes ahead of flush_start overwritten
RestoreNothing(mem, s, coarse_start_offset, backup_data, backup_bytes) == mem

\* if (backup_bytes) memcpy(&dst_buffer[coarse_start_offset], &backup_data[0], backup_bytes)
RestoreBackup(mem, s, coarse_start_offset, backup_data, backup_bytes) ==
    IF backup_bytes # 0
    THEN MemcpyTo(mem, s.addr, coarse_start_offset, backup_data, backup_bytes)
    ELSE mem

\* CachedSurface::FlushGLBuffer, the Fill branch
FlushGLBuffer(mem, s, from, to) ==
    LET flush_end == IF from < VRAM_VADDR_END /\ to > VRAM_VADDR_END
                     THEN VRAM_VADDR_END ELSE to
        flush_start == IF from < VRAM_VADDR /\ flush_end > VRAM_VADDR
                       THEN VRAM_VADDR ELSE from
        start_offset == flush_start - s.addr
        end_offset == flush_end - s.addr
        coarse_start_offset == start_offset - (start_offset % s.fill_size)
        backup_bytes == start_offset % s.fill_size
        backup_data == IF backup_bytes # 0
                       THEN MemcpyFrom(mem, s.addr, coarse_start_offset, backup_bytes)
                       ELSE <<>>
    IN IF s.addr \notin DOMAIN mem THEN mem          \* dst_buffer == nullptr
       ELSE IF ~(flush_start >= s.addr /\ flush_end <= s.end) THEN mem   \* ASSERT
       ELSE RestoreBackup(FillUnits(mem, s, coarse_start_offset, end_offset), s,
                          coarse_start_offset, backup_data, backup_bytes)

\* A Fill surface of at least one byte inside the followed bytes of a region
FillInit ==
    /\ backend = "gl"
    /\ device = "gl"
    /\ texture_recycler = {}
    /\ images = <<>>
    /\ upload_cmdbuf = <<>>
    /\ render_cmdbuf = <<>>
    /\ gpu = GpuStart
    /\ pixels = <<>>
    /\ mapped = <<>>
    /\ scheduler = <<>>
    /\ process = "running"
    /\ framebuffer_cache = <<>>
    /\ download_buffer = <<>>
    /\ upload_buffer = <<>>
    /\ pool = <<>>
    /\ threads = <<>>
    /\ apt = <<>>
    /\ \E base \in RegionBases :
          /\ memory = [a \in base..(base + MaxWindow - 1) |-> 16 + (a - base)]
          /\ \E addr \in base..(base + MaxWindow - 2) : \E end \in (addr + 1)..(base + MaxWindow - 1) :
             \E fill_size \in FillSizes : \E fill_data \in FillPatterns :
                surfaces = [slot \in Slots |->
                               IF slot = 1
                               THEN [type |-> "Fill", addr |-> addr, end |-> end,
                                     fill_size |-> fill_size, fill_data |-> fill_data]
                               ELSE NoSurface]
    /\ last = [op |-> "AccelerateFill"]

\* The cache flushes an interval of the surface
FlushFill ==
    /\ LET s == surfaces[1]
       IN \E from \in s.addr..(s.end - 1) : \E to \in (from + 1)..s.end :
             /\ memory' = FlushGLBuffer(memory, s, from, to)
             /\ last' = [op |-> "FlushGLBuffer", flush_start |-> from, flush_end |-> to,
                         before |-> memory]
    /\ UNCHANGED <<backend, device, surfaces, texture_recycler, images, upload_cmdbuf,
                   render_cmdbuf, gpu, pixels, mapped, scheduler, process,
                   framebuffer_cache, download_buffer, upload_buffer, pool, threads, apt>>

FillNext == FlushFill

SpecFill == FillInit /\ [][FillNext]_vars

\* C39: after FlushGLBuffer of a Fill surface every byte of
\* [flush_start, flush_end) holds the byte of the fill pattern at its
\* distance from the surface start modulo fill_size, and every byte before
\* flush_start, the cut pattern unit ahead of it included, and every byte at
\* or after flush_end holds what it held before
C39_FillFlushExact ==
    last.op = "FlushGLBuffer" =>
        LET s == surfaces[1]
        IN \A a \in DOMAIN memory :
              memory[a] = IF a >= last.flush_start /\ a < last.flush_end
                          THEN s.fill_data[((a - s.addr) % s.fill_size) + 1]
                          ELSE last.before[a]

\* A flush began inside a pattern unit and ended inside another: the bytes of
\* the first unit ahead of flush_start and of the last one from flush_end on
\* kept values that differ from the pattern
C39_Witness ==
    /\ last.op = "FlushGLBuffer"
    /\ LET s == surfaces[1]
       IN /\ (last.flush_start - s.addr) % s.fill_size # 0
          /\ (last.flush_end - s.addr) % s.fill_size # 0
          /\ last.flush_end < s.end
          /\ last.flush_end - last.flush_start > s.fill_size
          /\ memory[last.flush_start - 1] # s.fill_data[((last.flush_start - 1 - s.addr) % s.fill_size) + 1]
          /\ memory[last.flush_end] # s.fill_data[((last.flush_end - s.addr) % s.fill_size) + 1]
          /\ memory[last.flush_start] # last.before[last.flush_start]

====
